---- MODULE Spec2Model ----
\* Photo check-in kiosk (src/app.py): the spreadsheet-backed tabular store, the
\* cached reader in front of it, the handlers layered on both (check-in
\* insert, archive / clear, settings registry, package catalogue), the
\* identity generator, and the kiosk and manager pages that call them.
\*
\* Conventions.  A Python string is a sequence of one-character strings, so that
\* strip / slugify / upper / slicing are computed and not postulated.  A pandas
\* cell is a record [t, v]: t is the Python type of the cell ("s" str, "na"
\* pd.NA / NaN, "none" None, "b" bool, "f" float) and v is str(cell), the text
\* astype(str) produces.  A DataFrame is [cols, rows] with rows positionally
\* aligned to cols.  A worksheet is the list of lists ws.get_all_values() returns.
EXTENDS Integers, Sequences, FiniteSets, TLC

VARIABLES
    DEMO_MODE,  \* the DEMO_MODE secret (src/app.py:51), fixed for a deployment
    store,      \* the spreadsheet: worksheet name -> values (header row first)
    cache,      \* st.cache_data of gs_read_df: worksheet name -> [df, at]
    now,        \* wall clock, in seconds
    pc,         \* per session: "idle", or the Sheets call gs_write_df makes next
    wr,         \* per session: the frame of the handler that is in gs_write_df
    ret,        \* per session: how the handler it ran last ended
    lastSet,    \* history: per settings key, the value of the last set that returned
    norm,       \* the last call of ensure_packages_df: its argument and its result
    secrets,    \* st.secrets: the DEMO_MODE and GCS_BUCKET texts
    files,      \* external file storage (Drive folder, GCS bucket): the uploads, in order
    page,       \* per session: the locals of the page script that is running
    pkgcache    \* st.cache_data of gs_read_packages (no ttl)

vars == <<DEMO_MODE, store, cache, now, pc, wr, ret, lastSet, norm, secrets, files, page, pkgcache>>

-----------------------------------------------------------------------------
\* Bounds of the model.

MaxRows == 3        \* data rows a table written by insert may hold
MaxTime == 20       \* the clock stops advancing here
MaxPkgRows == 3     \* rows of an (id, name) table handed to ensure_packages_df
MaxFiles == 2       \* files the external storage may hold

Sessions == {"s1", "s2"}

-----------------------------------------------------------------------------
\* Strings.

InSeq(x, s) == \E i \in 1..Len(s) : s[i] = x

Digits == <<"0", "1", "2", "3", "4", "5", "6", "7", "8", "9">>
LowerAlpha == <<"a", "b", "c", "d", "e", "f", "g", "h", "i", "j", "k", "l", "m", "n", "o", "p", "q", "r", "s", "t", "u", "v", "w", "x", "y", "z">>
UpperAlpha == <<"A", "B", "C", "D", "E", "F", "G", "H", "I", "J", "K", "L", "M", "N", "O", "P", "Q", "R", "S", "T", "U", "V", "W", "X", "Y", "Z">>

SeqToSet(s) == {s[i] : i \in 1..Len(s)}
IndexOf(ch, s) == CHOOSE i \in 1..Len(s) : s[i] = ch

\* str.isalnum, str.lower and str.upper, one character at a time.
IsAlnum(ch) == ch \in SeqToSet(Digits) \cup SeqToSet(LowerAlpha) \cup SeqToSet(UpperAlpha)
LowerChar(ch) == IF ch \in SeqToSet(UpperAlpha) THEN LowerAlpha[IndexOf(ch, UpperAlpha)] ELSE ch
UpperChar(ch) == IF ch \in SeqToSet(LowerAlpha) THEN UpperAlpha[IndexOf(ch, LowerAlpha)] ELSE ch

Lower(s) == [i \in 1..Len(s) |-> LowerChar(s[i])]
Upper(s) == [i \in 1..Len(s) |-> UpperChar(s[i])]

\* slugify(s): the alphanumeric characters of s, lower-cased.
slugify(s) == Lower(SelectSeq(s, IsAlnum))

IsSpace(ch) == ch = " "

\* str.strip(): drop leading and trailing whitespace.
RECURSIVE LStrip(_)
LStrip(s) == IF s # <<>> /\ IsSpace(Head(s)) THEN LStrip(Tail(s)) ELSE s

RECURSIVE RStrip(_)
RStrip(s) ==
    IF s # <<>> /\ IsSpace(s[Len(s)]) THEN RStrip(SubSeq(s, 1, Len(s) - 1)) ELSE s

Strip(s) == RStrip(LStrip(s))

\* s[:n]
Prefix(s, n) == SubSeq(s, 1, IF Len(s) < n THEN Len(s) ELSE n)

\* str(n) for a natural number n.
RECURSIVE StrNat(_)
StrNat(n) == IF n < 10 THEN <<Digits[n + 1]>> ELSE StrNat(n \div 10) \o <<Digits[(n % 10) + 1]>>

-----------------------------------------------------------------------------
\* hashlib.sha1: SHA-1 (FIPS 180-4) on bit strings.  A 32-bit word is a bit
\* string of length 32, most significant bit first.

\* Printable ASCII in code order, code 32 (space) first; the three characters
\* that need an escape in a string literal are left as placeholders.
Ascii == <<" ", "!", "QUOTE", "#", "$", "%", "&", "'", "(", ")", "*", "+", ",", "-", ".", "/",
           "0", "1", "2", "3", "4", "5", "6", "7", "8", "9", ":", ";", "<", "=", ">", "?",
           "@", "A", "B", "C", "D", "E", "F", "G", "H", "I", "J", "K", "L", "M", "N", "O",
           "P", "Q", "R", "S", "T", "U", "V", "W", "X", "Y", "Z", "[", "BACKSLASH", "]", "^", "_",
           "BACKTICK", "a", "b", "c", "d", "e", "f", "g", "h", "i", "j", "k", "l", "m", "n", "o",
           "p", "q", "r", "s", "t", "u", "v", "w", "x", "y", "z", "{", "|", "}", "~">>

\* ord(ch)
Ord(ch) == 31 + IndexOf(ch, Ascii)

\* n as w bits.
Bits(n, w) == [i \in 1..w |-> (n \div 2^(w - i)) % 2]

\* The number a bit string spells.
RECURSIVE ToNat(_)
ToNat(b) == IF b = <<>> THEN 0 ELSE 2 * ToNat(SubSeq(b, 1, Len(b) - 1)) + b[Len(b)]

\* s.encode("utf-8"), as bits: one byte per (ASCII) character.
Encode(s) ==
    [i \in 1..(8 * Len(s)) |-> Bits(Ord(s[((i - 1) \div 8) + 1]), 8)[((i - 1) % 8) + 1]]

Xor(a, b) == [i \in 1..32 |-> (a[i] + b[i]) % 2]
And(a, b) == [i \in 1..32 |-> a[i] * b[i]]
Or(a, b) == [i \in 1..32 |-> IF a[i] + b[i] > 0 THEN 1 ELSE 0]
Not(a) == [i \in 1..32 |-> 1 - a[i]]
Rotl(a, n) == SubSeq(a, n + 1, 32) \o SubSeq(a, 1, n)

\* The word with high half hi and low half lo.
Word(hi, lo) == Bits(hi, 16) \o Bits(lo, 16)
Lo(a) == ToNat(SubSeq(a, 17, 32))
Hi(a) == ToNat(SubSeq(a, 1, 16))

\* The sum of the words ws modulo 2^32, 16 bits at a time.
AddWords(ws) ==
    LET RECURSIVE SumLo(_)
        SumLo(i) == IF i = 0 THEN 0 ELSE Lo(ws[i]) + SumLo(i - 1)
        RECURSIVE SumHi(_)
        SumHi(i) == IF i = 0 THEN 0 ELSE Hi(ws[i]) + SumHi(i - 1)
    IN  Word((SumHi(Len(ws)) + (SumLo(Len(ws)) \div 65536)) % 65536, SumLo(Len(ws)) % 65536)

\* Padding: a 1 bit, zeros up to 448 mod 512, the bit length in 64 bits.
Pad(m) ==
    m \o <<1>> \o [i \in 1..((447 - Len(m)) % 512) |-> 0]
      \o [i \in 1..40 |-> 0] \o Bits(Len(m), 24)

\* f and K of round t (0-based).
ShaF(t, b, c, d) ==
    IF t < 20 THEN Or(And(b, c), And(Not(b), d))
    ELSE IF t < 40 THEN Xor(Xor(b, c), d)
    ELSE IF t < 60 THEN Or(Or(And(b, c), And(b, d)), And(c, d))
    ELSE Xor(Xor(b, c), d)

ShaK(t) ==
    IF t < 20 THEN Word(23170, 31129)
    ELSE IF t < 40 THEN Word(28377, 60321)
    ELSE IF t < 60 THEN Word(36635, 48348)
    ELSE Word(51810, 49622)

\* One round.  st.t rounds are done; st.w holds 16 words of the message
\* schedule, the word of round st.t first.
Round(st) ==
    [t |-> st.t + 1,
     e |-> st.d,
     d |-> st.c,
     c |-> Rotl(st.b, 30),
     b |-> st.a,
     a |-> AddWords(<<Rotl(st.a, 5), ShaF(st.t, st.b, st.c, st.d), st.e, ShaK(st.t), st.w[1]>>),
     w |-> Append(Tail(st.w),
                  Rotl(Xor(Xor(st.w[14], st.w[9]), Xor(st.w[3], st.w[1])), 1))]

RECURSIVE Rounds(_, _)
Rounds(st, n) == IF st.t = n THEN st ELSE Rounds(Round(st), n)

\* The compression function: 80 rounds on one 512-bit block, in four stages.
Compress(h, block) ==
    LET st == [t |-> 0, a |-> h[1], b |-> h[2], c |-> h[3], d |-> h[4], e |-> h[5],
               w |-> [i \in 1..16 |-> SubSeq(block, 32 * i - 31, 32 * i)]]
        r  == Rounds(Rounds(Rounds(Rounds(st, 20), 40), 60), 80)
    IN  <<AddWords(<<h[1], r.a>>), AddWords(<<h[2], r.b>>), AddWords(<<h[3], r.c>>),
          AddWords(<<h[4], r.d>>), AddWords(<<h[5], r.e>>)>>

RECURSIVE Blocks(_, _)
Blocks(h, m) ==
    IF m = <<>> THEN h ELSE Blocks(Compress(h, SubSeq(m, 1, 512)), SubSeq(m, 513, Len(m)))

ShaH0 ==
    <<Word(26437, 8961), Word(61389, 43913), Word(39098, 56574), Word(4146, 21622),
      Word(50130, 57840)>>

HexDigits == <<"0", "1", "2", "3", "4", "5", "6", "7", "8", "9", "a", "b", "c", "d", "e", "f">>

\* hashlib.sha1(s.encode("utf-8")).hexdigest()
sha1_hexdigest(s) ==
    LET h    == Blocks(ShaH0, Pad(Encode(s)))
        bits == h[1] \o h[2] \o h[3] \o h[4] \o h[5]
    IN  [i \in 1..40 |-> HexDigits[ToNat(SubSeq(bits, 4 * i - 3, 4 * i)) + 1]]

-----------------------------------------------------------------------------
\* Identity generator.

\* A generator that keeps eight characters of the digest.
gen_player_id_short(first, last, team) ==
    Prefix(sha1_hexdigest(Strip(first \o <<"-">> \o last \o <<"-">> \o team)), 8)

gen_player_id(first, last, team) ==
    Prefix(sha1_hexdigest(Strip(first \o <<"-">> \o last \o <<"-">> \o team)), 10)

short_code(pid) == Upper(Prefix(sha1_hexdigest(pid), 6))

-----------------------------------------------------------------------------
\* Cells and DataFrames.

StrCell(s) == [t |-> "s", v |-> s]
NA == [t |-> "na", v |-> <<"<", "N", "A", ">">>]
NoneCell == [t |-> "none", v |-> <<"N", "o", "n", "e">>]
BoolCell(b) ==
    [t |-> "b", v |-> IF b THEN <<"T", "r", "u", "e">> ELSE <<"F", "a", "l", "s", "e">>]

\* pd.notnull / pd.notna
NotNull(c) == c.t \notin {"na", "none"}

\* pd.DataFrame()
EmptyDataFrame == [cols |-> <<>>, rows |-> <<>>]

\* DataFrame.empty
IsEmpty(df) == Len(df.cols) = 0 \/ Len(df.rows) = 0

ColIndex(df, c) == CHOOSE i \in 1..Len(df.cols) : df.cols[i] = c

HasCol(df, c) == InSeq(c, df.cols)

\* df[c] = value: overwrite the column, or append it as the last one.
SetCol(df, c, value) ==
    IF HasCol(df, c)
    THEN [df EXCEPT !.rows =
            [i \in 1..Len(df.rows) |-> [df.rows[i] EXCEPT ![ColIndex(df, c)] = value]]]
    ELSE [cols |-> Append(df.cols, c),
          rows |-> [i \in 1..Len(df.rows) |-> Append(df.rows[i], value)]]

\* A dict is the sequence of its items [k, v], in insertion order.
DictKeys(d) == [i \in 1..Len(d) |-> d[i].k]

\* pd.DataFrame([row])
DataFrameOfDict(d) ==
    [cols |-> DictKeys(d), rows |-> <<[i \in 1..Len(d) |-> d[i].v]>>]

\* pd.concat([a, b], ignore_index=True): the columns of a, then those b adds;
\* a cell no frame supplies is NaN.
Concat(a, b) ==
    LET extra == SelectSeq(b.cols, LAMBDA c : ~HasCol(a, c))
        cols  == a.cols \o extra
        FromA(r) == [j \in 1..Len(cols) |-> IF j <= Len(a.cols) THEN r[j] ELSE NA]
        FromB(r) == [j \in 1..Len(cols) |->
                        IF HasCol(b, cols[j]) THEN r[ColIndex(b, cols[j])] ELSE NA]
    IN  [cols |-> cols,
         rows |-> [i \in 1..Len(a.rows) |-> FromA(a.rows[i])]
                  \o [i \in 1..Len(b.rows) |-> FromB(b.rows[i])]]

-----------------------------------------------------------------------------
\* Worksheet names.

Sheet(name) == [base |-> name, archive |-> FALSE, stamp |-> 0]

\* f"{name}_Archive_{stamp}", stamp = datetime.now().strftime("%Y%m%d-%H%M%S"):
\* the clock at one-second resolution.
ArchiveName(name, t) == [base |-> name, archive |-> TRUE, stamp |-> t]

CHECKINS_SHEET == Sheet("Checkins")
SETTINGS_SHEET == Sheet("Settings")
PACKAGES_SHEET == Sheet("Packages")

-----------------------------------------------------------------------------
\* Tabular store adapter.

TTL == 20

\* The value gs_read_df computes on a cache miss: first row is the header,
\* the rest are data, "" becomes pd.NA.
ParseValues(values) ==
    IF values = <<>>
    THEN EmptyDataFrame
    ELSE [cols |-> values[1],
          rows |-> [i \in 1..(Len(values) - 1) |->
                      [j \in 1..Len(values[i + 1]) |->
                          IF values[i + 1][j] = <<>> THEN NA ELSE StrCell(values[i + 1][j])]]]

CacheHit(name) == name \in DOMAIN cache /\ now < cache[name].at + TTL

\* gs_read_df(sheet_name): the DataFrame returned.
gs_read_df(name) ==
    IF CacheHit(name) THEN cache[name].df
    ELSE IF DEMO_MODE THEN EmptyDataFrame
    ELSE ParseValues(store[name])

\* gs_read_df(sheet_name): the cache after the call.
CacheAfterRead(name) ==
    IF CacheHit(name) THEN cache
    ELSE [n \in DOMAIN cache \cup {name} |->
            IF n = name THEN [df |-> gs_read_df(name), at |-> now] ELSE cache[n]]

\* gs_read_df.clear()
ClearedCache == [n \in {} |-> [df |-> EmptyDataFrame, at |-> 0]]

\* The list of lists gs_write_df hands to ws.update: null cells become "",
\* every other cell its str().
DataOf(df) ==
    <<df.cols>> \o
    [i \in 1..Len(df.rows) |->
        [j \in 1..Len(df.cols) |->
            IF NotNull(df.rows[i][j]) THEN df.rows[i][j].v ELSE <<>>]]

\* What the worksheet holds after ws.update(data): a sheet of blank cells has
\* no values.
ValuesAfterUpdate(data) == IF data[1] = <<>> THEN <<>> ELSE data

-----------------------------------------------------------------------------
\* Secrets, the cached catalogue reader, and the locals of a page script.

\* st.secrets, as the texts of the two secrets the handlers look at; a secret
\* that is not configured reads as the empty text.
Secrets(demo, bucket) == [DEMO_MODE |-> demo, GCS_BUCKET |-> bucket]
NoSecrets == Secrets(<<>>, <<>>)

\* DEMO_MODE = str(st.secrets.get("DEMO_MODE", "0")).strip().lower() in {"1", "true", "yes"}
DemoModeOf(text) ==
    Lower(Strip(text)) \in {<<"1">>, <<"t", "r", "u", "e">>, <<"y", "e", "s">>}

\* The test the Save packages and Archive & Clear buttons make themselves:
\* str(st.secrets.get("DEMO_MODE", "0")).strip().lower() in {"1", "true"}
PageDemoCheck == Lower(Strip(secrets.DEMO_MODE)) \in {<<"1">>, <<"t", "r", "u", "e">>}

\* gs_read_packages is cached without a ttl: an entry stays until
\* gs_read_packages.clear().
NoPackages == [set |-> FALSE, df |-> EmptyDataFrame]

\* gs_read_df(sheet_name) for each name of names in turn: the cache after the calls.
CacheAfterReading(names) ==
    [n \in DOMAIN cache \cup {m \in names : ~CacheHit(m)} |->
        IF n \in names /\ ~CacheHit(n) THEN [df |-> gs_read_df(n), at |-> now] ELSE cache[n]]

\* The photo of a check-in form: none, the camera's, or an uploaded file.
NoPhoto == [via |-> "none", type |-> <<>>, name |-> <<>>]

NoForm ==
    [first |-> <<>>, last |-> <<>>, team |-> <<>>, jersey |-> <<>>,
     parent_email |-> <<>>, parent_phone |-> <<>>, notes |-> <<>>,
     release |-> FALSE, paid |-> FALSE, photo |-> NoPhoto, pkg |-> 1]

\* selected_pkg_id, selected_price, package_name_for_row before a package is chosen.
NoSelection == [id |-> StrCell(<<>>), price |-> [t |-> "f", v |-> <<"0", ".", "0">>], name |-> <<>>]

\* The locals of a page script between two of its calls; at is the call it
\* makes next, outcome is what the page showed when its last run ended.
IdlePage ==
    [at |-> "idle", outcome |-> "none", form |-> NoForm,
     pid |-> <<>>, scode |-> <<>>, base_name |-> <<>>, mimetype |-> <<>>,
     org_name |-> <<>>, sel |-> NoSelection,
     fid |-> <<>>, link |-> <<>>, row |-> <<>>,
     pkg_df |-> EmptyDataFrame, edited |-> EmptyDataFrame, options |-> <<>>,
     current_rows |-> 0, archive_first |-> FALSE, note |-> <<>>,
     archived |-> <<>>, removed |-> <<>>]

\* A script has ended showing outcome.
Ended(outcome) == [IdlePage EXCEPT !.outcome = outcome]

-----------------------------------------------------------------------------
\* Handler frames.

IdleFrame == [op |-> "none", sheet |-> CHECKINS_SHEET, df |-> EmptyDataFrame,
              before |-> <<>>, arg |-> <<>>, n |-> 0]

Ret(op, status, name, n, str) ==
    [op |-> op, status |-> status, name |-> name, n |-> n, str |-> str]

NoRet == Ret("none", "ok", <<>>, 0, <<>>)

\* The handler of session s has read and computed; gs_write_df(sheet, df) is next.
\* before: the worksheet's values when the handler was entered; arg: the
\* handler's argument; n: the row count it will return.
EnterWrite(s, op, sheet, df, arg, n) ==
    /\ pc' = [pc EXCEPT ![s] = "clear"]
    /\ wr' = [wr EXCEPT ![s] = [op |-> op, sheet |-> sheet, df |-> df,
                                before |-> IF sheet \in DOMAIN store
                                           THEN store[sheet] ELSE <<>>,
                                arg |-> arg, n |-> n]]
    /\ UNCHANGED <<store, ret>>

\* gs_write_df, first half: DEMO_MODE returns at once; sh.worksheet raises
\* WorksheetNotFound for a tab that does not exist; else ws.clear().
WriteClear(s) ==
    /\ pc[s] = "clear"
    /\ IF DEMO_MODE
       THEN /\ pc' = [pc EXCEPT ![s] = "written"]
            /\ UNCHANGED <<store, wr, ret>>
       ELSE IF wr[s].sheet \notin DOMAIN store
       THEN /\ pc' = [pc EXCEPT ![s] = "idle"]
            /\ ret' = [ret EXCEPT ![s] = Ret(wr[s].op, "WorksheetNotFound", <<>>, 0, <<>>)]
            /\ wr' = [wr EXCEPT ![s] = IdleFrame]
            /\ UNCHANGED store
       ELSE /\ store' = [store EXCEPT ![wr[s].sheet] = <<>>]
            /\ pc' = [pc EXCEPT ![s] = "update"]
            /\ UNCHANGED <<wr, ret>>
    /\ UNCHANGED <<lastSet, norm, DEMO_MODE, secrets, files, page, pkgcache, cache, now>>

\* A ws.update that keeps the rows another writer stored meanwhile and adds
\* the writer's last row to them.
WriteUpdateMerging(s) ==
    /\ pc[s] = "update"
    /\ store' = [store EXCEPT ![wr[s].sheet] =
                    IF store[wr[s].sheet] = <<>> \/ wr[s].df.rows = <<>>
                    THEN ValuesAfterUpdate(DataOf(wr[s].df))
                    ELSE Append(store[wr[s].sheet], DataOf(wr[s].df)[Len(wr[s].df.rows) + 1])]
    /\ pc' = [pc EXCEPT ![s] = "written"]
    /\ UNCHANGED <<lastSet, norm, DEMO_MODE, secrets, files, page, pkgcache, cache, now, wr, ret>>

\* gs_write_df, second half: ws.update(data).
WriteUpdate(s) ==
    /\ pc[s] = "update"
    /\ store' = [store EXCEPT ![wr[s].sheet] = ValuesAfterUpdate(DataOf(wr[s].df))]
    /\ pc' = [pc EXCEPT ![s] = "written"]
    /\ UNCHANGED <<lastSet, norm, DEMO_MODE, secrets, files, page, pkgcache, cache, now, wr, ret>>

\* The rest of the handler once gs_write_df has returned: gs_write_packages,
\* gs_archive_checkins and gs_clear_checkins clear gs_read_df's cache, and
\* gs_write_packages that of gs_read_packages too; sb_insert_checkin does
\* nothing more.
AfterWrite(s) ==
    /\ pc[s] = "written"
    /\ cache' = IF wr[s].op \in {"save", "archive", "clear"} THEN ClearedCache ELSE cache
    /\ ret' = [ret EXCEPT ![s] =
                 IF wr[s].op = "archive"
                 THEN Ret("archive", "ok", <<wr[s].sheet>>, wr[s].n, <<>>)
                 ELSE Ret(wr[s].op, "ok", <<>>, 0, <<>>)]
    /\ lastSet' = IF wr[s].op = "set"
                  THEN [lastSet EXCEPT ![wr[s].arg[1]] = [set |-> TRUE, value |-> wr[s].arg[2]]]
                  ELSE lastSet
    /\ pkgcache' = IF wr[s].op = "save" THEN NoPackages ELSE pkgcache
    /\ pc' = [pc EXCEPT ![s] = "idle"]
    /\ wr' = [wr EXCEPT ![s] = IdleFrame]
    /\ UNCHANGED <<norm, DEMO_MODE, secrets, files, page, store, now>>

\* A gs_write_df that swallows the failure of a Sheets call.
WriteFailSilent(s) ==
    /\ pc[s] \in {"clear", "update"}
    /\ ~DEMO_MODE
    /\ pc' = [pc EXCEPT ![s] = "idle"]
    /\ ret' = [ret EXCEPT ![s] = Ret(wr[s].op, "ok", <<>>, 0, <<>>)]
    /\ wr' = [wr EXCEPT ![s] = IdleFrame]
    /\ UNCHANGED <<lastSet, norm, DEMO_MODE, secrets, files, page, pkgcache, store, cache, now>>

\* A Sheets call of gs_write_df fails (transport error): the exception leaves
\* the handler, nothing after the failing call runs.
WriteFail(s) ==
    /\ pc[s] \in {"clear", "update"}
    /\ ~DEMO_MODE
    /\ pc' = [pc EXCEPT ![s] = "idle"]
    /\ ret' = [ret EXCEPT ![s] = Ret(wr[s].op, "TransportError", <<>>, 0, <<>>)]
    /\ wr' = [wr EXCEPT ![s] = IdleFrame]
    /\ UNCHANGED <<lastSet, norm, DEMO_MODE, secrets, files, page, pkgcache, store, cache, now>>

-----------------------------------------------------------------------------
\* Check-in recorder.

c_team == <<"t", "e", "a", "m">>
c_notes == <<"n", "o", "t", "e", "s">>
c_paid == <<"p", "a", "i", "d">>

\* The rows the kiosk hands to sb_insert_checkin.
CheckinRows ==
    { <<[k |-> c_team, v |-> StrCell(<<"r", "e", "d">>)]>>,
      <<[k |-> c_team, v |-> StrCell(<<"r", "e", "d">>)],
        [k |-> c_notes, v |-> StrCell(<<"n">>)]>>,
      <<[k |-> c_notes, v |-> StrCell(<<"k">>)],
        [k |-> c_paid, v |-> BoolCell(TRUE)]>> }

\* new_df of sb_insert_checkin.
InsertedFrame(existing, row) ==
    IF IsEmpty(existing)
    THEN DataFrameOfDict(row)
    ELSE LET added == SelectSeq(DictKeys(row), LAMBDA c : ~HasCol(existing, c))
             RECURSIVE AddCols(_, _)
             AddCols(df, cs) ==
                 IF cs = <<>> THEN df ELSE AddCols(SetCol(df, Head(cs), NA), Tail(cs))
         IN  Concat(AddCols(existing, added), DataFrameOfDict(row))

sb_insert_checkin(s, row) ==
    /\ pc[s] = "idle"
    /\ LET new_df == InsertedFrame(gs_read_df(CHECKINS_SHEET), row)
       IN  /\ Len(new_df.rows) <= MaxRows
           /\ EnterWrite(s, "insert", CHECKINS_SHEET, new_df, row, 0)
    /\ cache' = CacheAfterRead(CHECKINS_SHEET)
    /\ UNCHANGED <<lastSet, norm, DEMO_MODE, secrets, files, pkgcache, now>>

-----------------------------------------------------------------------------
\* Archive / clear.

c_archive_note == <<"_", "_", "a", "r", "c", "h", "i", "v", "e", "_", "n", "o", "t", "e", "_", "_">>

ArchiveNotes == {<<>>, <<"e", "n", "d">>}

\* A handler that only reads returns at once.
Return(s, r) ==
    /\ ret' = [ret EXCEPT ![s] = r]
    /\ UNCHANGED <<store, pc, wr>>

\* 0 if df.empty else len(df)
RowCount(df) == IF IsEmpty(df) THEN 0 ELSE Len(df.rows)

gs_count_checkins(s) ==
    /\ pc[s] = "idle"
    /\ Return(s, Ret("count", "ok", <<>>, RowCount(gs_read_df(CHECKINS_SHEET)), <<>>))
    /\ cache' = CacheAfterRead(CHECKINS_SHEET)
    /\ UNCHANGED <<lastSet, norm, DEMO_MODE, secrets, files, pkgcache, now>>

gs_archive_checkins(s, note) ==
    /\ pc[s] = "idle"
    /\ LET df == gs_read_df(CHECKINS_SHEET)
           rows == RowCount(df)
       IN  IF rows = 0
           THEN Return(s, Ret("archive", "ok", <<>>, 0, <<>>))
           ELSE EnterWrite(s, "archive", ArchiveName(CHECKINS_SHEET.base, now),
                           IF note # <<>> THEN SetCol(df, c_archive_note, StrCell(note)) ELSE df,
                           note, rows)
    /\ cache' = CacheAfterRead(CHECKINS_SHEET)
    /\ UNCHANGED <<lastSet, norm, DEMO_MODE, secrets, files, pkgcache, now>>

gs_clear_checkins(s) ==
    /\ pc[s] = "idle"
    /\ LET df == gs_read_df(CHECKINS_SHEET)
       IN  EnterWrite(s, "clear", CHECKINS_SHEET,
                      IF IsEmpty(df) THEN EmptyDataFrame ELSE [df EXCEPT !.rows = <<>>],
                      <<>>, 0)
    /\ cache' = CacheAfterRead(CHECKINS_SHEET)
    /\ UNCHANGED <<lastSet, norm, DEMO_MODE, secrets, files, pkgcache, now>>

-----------------------------------------------------------------------------
\* Settings registry.

c_key == <<"k", "e", "y">>
c_value == <<"v", "a", "l", "u", "e">>

SettingKeys == {<<"O", "R", "G", "_", "N", "A", "M", "E">>, <<"H", "E", "A", "L", "T", "H", "C", "H", "E", "C", "K">>}
SettingValues == {<<>>, <<"R", "e", "d", "s">>, <<"U", "1", "0">>}
\* Every call site passes the default "".
SettingDefaults == {<<>>}

\* {"key": key, "value": value}
SettingDict(key, value) ==
    <<[k |-> c_key, v |-> StrCell(key)], [k |-> c_value, v |-> StrCell(value)]>>

\* df["key"] == key, row by row
KeyIs(df, i, key) == df.rows[i][ColIndex(df, c_key)] = StrCell(key)

\* What gs_get_setting returns, given the DataFrame it read.
SettingValue(df, key, default) ==
    IF IsEmpty(df) \/ ~HasCol(df, c_key)
    THEN default
    ELSE LET hit == SelectSeq(df.rows, LAMBDA r : r[ColIndex(df, c_key)] = StrCell(key))
         IN  IF hit # <<>> /\ NotNull(hit[1][ColIndex(df, c_value)])
             THEN hit[1][ColIndex(df, c_value)].v
             ELSE default

gs_get_setting(s, key, default) ==
    /\ pc[s] = "idle"
    /\ Return(s, Ret("get", "ok", <<>>, 0, SettingValue(gs_read_df(SETTINGS_SHEET), key, default)))
    /\ cache' = CacheAfterRead(SETTINGS_SHEET)
    /\ UNCHANGED <<lastSet, norm, DEMO_MODE, secrets, files, pkgcache, now>>

\* The table gs_set_setting writes back: a single row if the table read is
\* empty, the key's row updated in place if there is one, else a row appended.
SettingsAfterSet(df, key, value) ==
    IF IsEmpty(df)
    THEN DataFrameOfDict(SettingDict(key, value))
    ELSE IF \E i \in 1..Len(df.rows) : KeyIs(df, i, key)
    THEN [df EXCEPT !.rows =
            [i \in 1..Len(df.rows) |->
                IF KeyIs(df, i, key)
                THEN [df.rows[i] EXCEPT ![ColIndex(df, c_value)] = StrCell(value)]
                ELSE df.rows[i]]]
    ELSE Concat(df, DataFrameOfDict(SettingDict(key, value)))

gs_set_setting(s, key, value) ==
    /\ pc[s] = "idle"
    /\ EnterWrite(s, "set", SETTINGS_SHEET,
                  SettingsAfterSet(gs_read_df(SETTINGS_SHEET), key, value),
                  <<key, value>>, 0)
    /\ cache' = CacheAfterRead(SETTINGS_SHEET)
    /\ UNCHANGED <<lastSet, norm, DEMO_MODE, secrets, files, pkgcache, now>>

-----------------------------------------------------------------------------
\* Package catalogue.

c_id == <<"i", "d">>
c_name == <<"n", "a", "m", "e">>
c_price == <<"p", "r", "i", "c", "e">>
c_active == <<"a", "c", "t", "i", "v", "e">>
c_note == <<"n", "o", "t", "e">>

FloatCell(text) == [t |-> "f", v |-> text]

DEFAULT_PACKAGES ==
    [cols |-> <<c_id, c_name, c_price, c_active, c_note>>,
     rows |-> <<
        <<StrCell(<<"B", "A", "S", "I", "C">>), StrCell(<<"B", "a", "s", "i", "c", " ", "(", "1", " ", "p", "o", "s", "e", ")">>), FloatCell(<<"2", "5", ".", "0">>),
          BoolCell(TRUE), StrCell(<<>>)>>,
        <<StrCell(<<"P", "L", "U", "S">>), StrCell(<<"P", "l", "u", "s", " ", "(", "2", " ", "p", "o", "s", "e", "s", ")">>), FloatCell(<<"4", "0", ".", "0">>),
          BoolCell(TRUE), StrCell(<<>>)>>,
        <<StrCell(<<"D", "E", "L", "U", "X", "E">>), StrCell(<<"D", "e", "l", "u", "x", "e", " ", "(", "3", " ", "p", "o", "s", "e", "s", ")">>), FloatCell(<<"5", "5", ".", "0">>),
          BoolCell(TRUE), StrCell(<<>>)>>,
        <<StrCell(<<"T", "E", "A", "M">>), StrCell(<<"T", "e", "a", "m", " ", "P", "h", "o", "t", "o", " ", "A", "d", "d", "-", "o", "n">>), FloatCell(<<"1", "0", ".", "0">>),
          BoolCell(FALSE), StrCell(<<>>)>> >>]

\* df[c] = cells, for a column df has: cells[i] goes to row i.
WithCol(df, c, cells) ==
    [df EXCEPT !.rows =
        [i \in 1..Len(df.rows) |-> [df.rows[i] EXCEPT ![ColIndex(df, c)] = cells[i]]]]

CellOf(df, i, c) == df.rows[i][ColIndex(df, c)]

\* "Ensure columns exist": each missing column is added with its default.
PackageColumnDefaults ==
    << <<c_id, StrCell(<<>>)>>, <<c_name, StrCell(<<>>)>>, <<c_price, FloatCell(<<"0", ".", "0">>)>>,
       <<c_active, BoolCell(TRUE)>>, <<c_note, StrCell(<<>>)>> >>

RECURSIVE EnsureColumns(_, _)
EnsureColumns(df, defaults) ==
    IF defaults = <<>> THEN df
    ELSE EnsureColumns(IF HasCol(df, Head(defaults)[1]) THEN df
                       ELSE SetCol(df, Head(defaults)[1], Head(defaults)[2]),
                       Tail(defaults))

\* df["name"].astype(str).str.strip()
CoerceName(cell) == StrCell(Strip(cell.v))

\* Text pd.to_numeric reads as a number: an optional sign, digits, at most one
\* decimal point.
IsNumericText(s) ==
    LET body == IF s # <<>> /\ Head(s) = "-" THEN Tail(s) ELSE s
    IN  /\ \A i \in 1..Len(body) : body[i] \in SeqToSet(Digits) \cup {"."}
        /\ Len(SelectSeq(body, LAMBDA ch : ch = ".")) <= 1
        /\ Len(SelectSeq(body, LAMBDA ch : ch # ".")) >= 1

RECURSIVE DropLeadingZeros(_)
DropLeadingZeros(s) ==
    IF Len(s) > 1 /\ Head(s) = "0" THEN DropLeadingZeros(Tail(s)) ELSE s

RECURSIVE DropTrailingZeros(_)
DropTrailingZeros(s) ==
    IF Len(s) > 1 /\ s[Len(s)] = "0" THEN DropTrailingZeros(SubSeq(s, 1, Len(s) - 1)) ELSE s

\* str(float(s)) for numeric text s.
FloatText(s) ==
    LET neg  == s # <<>> /\ Head(s) = "-"
        body == IF neg THEN Tail(s) ELSE s
        dot  == IF InSeq(".", body) THEN IndexOf(".", body) ELSE Len(body) + 1
        int  == SubSeq(body, 1, dot - 1)
        frac == SubSeq(body, dot + 1, Len(body))
    IN  (IF neg THEN <<"-">> ELSE <<>>)
        \o DropLeadingZeros(IF int = <<>> THEN <<"0">> ELSE int)
        \o <<".">>
        \o DropTrailingZeros(IF frac = <<>> THEN <<"0">> ELSE frac)

\* pd.to_numeric(errors="coerce").fillna(0.0).astype(float)
CoercePrice(cell) ==
    IF cell.t = "f" THEN cell
    ELSE IF cell.t = "b" THEN FloatCell(IF cell = BoolCell(TRUE) THEN <<"1", ".", "0">> ELSE <<"0", ".", "0">>)
    ELSE IF cell.t = "s" /\ IsNumericText(cell.v) THEN FloatCell(FloatText(cell.v))
    ELSE FloatCell(<<"0", ".", "0">>)

\* astype(bool) is bool(x) cell by cell: a non-empty str is True whatever it
\* spells, None is False; bool(pd.NA) raises TypeError.
CoerceActive(cell) ==
    IF cell.t = "b" THEN cell
    ELSE IF cell.t = "s" THEN BoolCell(cell.v # <<>>)
    ELSE IF cell.t = "f" THEN BoolCell(cell.v \notin {<<"0", ".", "0">>, <<"-", "0", ".", "0">>})
    ELSE BoolCell(FALSE)

\* needs_id: df["id"].astype(str).str.strip() == ""
NeedsId(df, i) == Strip(CellOf(df, i, c_id).v) = <<>>

\* The while loop: the first f"{base.upper()[:12]}{n}", n = 2, 3, ..., not in existing.
RECURSIVE RetryId(_, _, _)
RetryId(stem, n, existing) ==
    IF stem \o StrNat(n) \notin existing THEN stem \o StrNat(n)
    ELSE RetryId(stem, n + 1, existing)

\* The id given to the row at index label i (0-based) named name.
AutoId(name, i, existing) ==
    LET base  == IF slugify(name) # <<>> THEN slugify(name) ELSE <<"p", "k", "g">> \o StrNat(i)
        first == IF Prefix(Upper(base), 16) # <<>> THEN Prefix(Upper(base), 16)
                 ELSE <<"P", "K", "G">> \o StrNat(i)
    IN  IF first \notin existing THEN first
        ELSE RetryId(Prefix(Upper(base), 12), 2, existing)

\* "Auto IDs where missing": rows in index order, each winning id added to
\* existing before the next row.
RECURSIVE AssignIds(_, _, _)
AssignIds(df, i, existing) ==
    IF i > Len(df.rows) THEN df
    ELSE IF ~NeedsId(df, i) THEN AssignIds(df, i + 1, existing)
    ELSE LET candidate == AutoId(CellOf(df, i, c_name).v, i - 1, existing)
         IN  AssignIds([df EXCEPT !.rows[i][ColIndex(df, c_id)] = StrCell(candidate)],
                       i + 1, existing \cup {candidate})

\* df[df["name"].str.len() > 0].reset_index(drop=True)
DropEmptyNames(df) ==
    [df EXCEPT !.rows = SelectSeq(df.rows, LAMBDA r : Len(r[ColIndex(df, c_name)].v) > 0)]

Normalized(status, df) == [status |-> status, df |-> df]

ensure_packages_df(df) ==
    IF IsEmpty(df) \/ ~HasCol(df, c_name)
    THEN Normalized("ok", DEFAULT_PACKAGES)
    ELSE LET d1 == EnsureColumns(df, PackageColumnDefaults)
             n  == Len(d1.rows)
             d2 == WithCol(d1, c_name, [i \in 1..n |-> CoerceName(CellOf(d1, i, c_name))])
             d3 == WithCol(d2, c_price, [i \in 1..n |-> CoercePrice(CellOf(d2, i, c_price))])
         IN  IF \E i \in 1..n : CellOf(d3, i, c_active).t = "na"
             THEN Normalized("TypeError", EmptyDataFrame)
             ELSE LET d4 == WithCol(d3, c_active,
                                    [i \in 1..n |-> CoerceActive(CellOf(d3, i, c_active))])
                  IN  Normalized("ok",
                        DropEmptyNames(
                            AssignIds(d4, 1, {CellOf(d4, i, c_id).v : i \in 1..n})))

\* The tables handed to ensure_packages_df: id and name cells as the manager
\* types them (blank, repeated), as gs_read_df returns a blank cell (pd.NA), and
\* long enough to be cut at 16 and at 12 characters.
IdCells == {StrCell(<<>>), NA, StrCell(<<"A">>), StrCell(<<"A", "2">>)}
NameCells == {StrCell(<<"a">>), StrCell(<<"A", " ", "2">>), StrCell(<<" ">>), StrCell(<<"T", "e", "a", "m", " ", "P", "h", "o", "t", "o", " ", "A", "d", "d", "-", "o", "n", " ", "2", " ", "x", "y", "z">>)}
PriceActiveCells ==
    { <<StrCell(<<"2", "5">>), BoolCell(FALSE)>>, <<StrCell(<<"f", "r", "e", "e">>), StrCell(<<"F", "a", "l", "s", "e">>)>>,
      <<FloatCell(<<"4", "0", ".", "0">>), StrCell(<<>>)>>, <<NA, NA>>, <<StrCell(<<"0", "7", ".", "5", "0">>), NoneCell>> }

\* All tables of at most n rows drawn from rowset.
RECURSIVE RowSeqs(_, _)
RowSeqs(rowset, n) ==
    IF n = 0 THEN {<<>>}
    ELSE LET shorter == RowSeqs(rowset, n - 1)
         IN  shorter \cup {Append(rs, r) : rs \in {x \in shorter : Len(x) = n - 1}, r \in rowset}

PackageInputs ==
    {[cols |-> <<c_id, c_name>>, rows |-> rs] :
        rs \in RowSeqs({<<i, n>> : i \in IdCells, n \in NameCells}, MaxPkgRows)}
    \cup
    {[cols |-> <<c_id, c_name, c_price, c_active, c_note>>, rows |-> rs] :
        rs \in RowSeqs({<<i, n, pa[1], pa[2], StrCell(<<>>)>> :
                          i \in {StrCell(<<" ">>), NoneCell, StrCell(<<"A">>)},
                          n \in {StrCell(<<"a">>), NA},
                          pa \in PriceActiveCells}, 1)}
    \cup
    {[cols |-> <<c_name>>, rows |-> rs] : rs \in RowSeqs({<<n>> : n \in NameCells}, 2)}
    \cup
    {[cols |-> <<c_id, c_price>>, rows |-> <<<<StrCell(<<"A">>), StrCell(<<"2", "5">>)>>>>],
     EmptyDataFrame}

NotNormalized == [in |-> EmptyDataFrame, out |-> Normalized("none", EmptyDataFrame)]

\* One call of ensure_packages_df on the table in norm.in.
Normalize ==
    /\ norm.out.status = "none"
    /\ norm' = [norm EXCEPT !.out = ensure_packages_df(norm.in)]
    /\ UNCHANGED <<lastSet, DEMO_MODE, secrets, files, page, pkgcache, store, cache, now, pc, wr, ret>>

-----------------------------------------------------------------------------
\* Time.

\* Time passes in steps of half a cache interval (an entry read before the
\* step is still served after it) or a whole one (it has expired).
Delays == {TTL \div 2, TTL}

Tick(d) ==
    /\ now + d <= MaxTime
    /\ now' = now + d
    /\ UNCHANGED <<lastSet, norm, DEMO_MODE, secrets, files, page, pkgcache, store, cache, pc, wr, ret>>

-----------------------------------------------------------------------------
\* get_google: every worksheet exists and holds at least its header row.
InitStore ==
    [n \in {CHECKINS_SHEET, SETTINGS_SHEET, PACKAGES_SHEET} |->
        IF n = CHECKINS_SHEET THEN <<<<c_team, c_notes, c_paid>>>>
        ELSE IF n = SETTINGS_SHEET THEN <<<<c_key, c_value>>>>
        ELSE <<<<c_id, c_name, c_price, c_active, c_note>>>>]

Init ==
    /\ DEMO_MODE = FALSE
    /\ store = InitStore
    /\ cache = ClearedCache
    /\ now = 0
    /\ pc = [s \in Sessions |-> "idle"]
    /\ wr = [s \in Sessions |-> IdleFrame]
    /\ ret = [s \in Sessions |-> NoRet]
    /\ lastSet = [k \in SettingKeys |-> [set |-> FALSE, value |-> <<>>]]
    /\ norm = NotNormalized
    /\ secrets = NoSecrets
    /\ files = <<>>
    /\ page = [s \in Sessions |-> IdlePage]
    /\ pkgcache = NoPackages

\* One handler at a time: the script of a session runs to its end before the
\* next one starts.
Alone(s) == \A t \in Sessions \ {s} : pc[t] = "idle"

Next ==
    \/ \E s \in Sessions : Alone(s) /\ UNCHANGED page /\ \E row \in CheckinRows : sb_insert_checkin(s, row)
    \/ \E s \in Sessions : Alone(s) /\ UNCHANGED page /\ gs_count_checkins(s)
    \/ \E s \in Sessions : Alone(s) /\ UNCHANGED page /\ \E note \in ArchiveNotes : gs_archive_checkins(s, note)
    \/ \E s \in Sessions : Alone(s) /\ UNCHANGED page /\ gs_clear_checkins(s)
    \/ \E s \in Sessions : Alone(s) /\ WriteClear(s)
    \/ \E s \in Sessions : Alone(s) /\ WriteUpdate(s)
    \/ \E s \in Sessions : Alone(s) /\ AfterWrite(s)
    \/ \E s \in Sessions : Alone(s) /\ WriteFail(s)
    \/ \E d \in Delays : Tick(d)

Spec == Init /\ [][Next]_vars

\* The settings registry, one handler at a time.
NextSettings ==
    \/ \E s \in Sessions : Alone(s) /\ UNCHANGED page
            /\ \E key \in SettingKeys, value \in SettingValues : gs_set_setting(s, key, value)
    \/ \E s \in Sessions : Alone(s) /\ UNCHANGED page
            /\ \E key \in SettingKeys, default \in SettingDefaults : gs_get_setting(s, key, default)
    \/ \E s \in Sessions : Alone(s) /\ WriteClear(s)
    \/ \E s \in Sessions : Alone(s) /\ WriteUpdate(s)
    \/ \E s \in Sessions : Alone(s) /\ AfterWrite(s)
    \/ \E s \in Sessions : Alone(s) /\ WriteFail(s)
    \/ \E d \in Delays : Tick(d)

SpecSettings == Init /\ [][NextSettings]_vars

\* ensure_packages_df as a function: every input table, one call.
InitNormalize ==
    /\ DEMO_MODE = FALSE
    /\ store = InitStore
    /\ cache = ClearedCache
    /\ now = 0
    /\ pc = [s \in Sessions |-> "idle"]
    /\ wr = [s \in Sessions |-> IdleFrame]
    /\ ret = [s \in Sessions |-> NoRet]
    /\ lastSet = [k \in SettingKeys |-> [set |-> FALSE, value |-> <<>>]]
    /\ norm \in {[in |-> df, out |-> Normalized("none", EmptyDataFrame)] : df \in PackageInputs}
    /\ secrets = NoSecrets
    /\ files = <<>>
    /\ page = [s \in Sessions |-> IdlePage]
    /\ pkgcache = NoPackages

SpecNormalize == InitNormalize /\ [][Normalize]_vars

-----------------------------------------------------------------------------
\* Reading a worksheet's values: header, values[0]; data rows, values[1:].

Header(values) == IF values = <<>> THEN <<>> ELSE values[1]
DataRows(values) == IF values = <<>> THEN <<>> ELSE Tail(values)

\* The text stored in data row i under column c.
StoredCell(values, i, c) ==
    DataRows(values)[i][CHOOSE j \in 1..Len(Header(values)) : Header(values)[j] = c]

\* Session s is in the step in which its handler op returns normally.
Returns(s, op) == pc[s] = "written" /\ wr[s].op = op /\ pc'[s] = "idle"

-----------------------------------------------------------------------------
\* Claims about the check-in table (specification Spec: one handler at a time).

\* C1: an insert that returns leaves the check-ins table with one data row more
\* than it held when insert was called, the earlier rows first and unchanged in
\* the columns they had; so k successive inserts onto n rows leave n + k rows,
\* also when the records are identical and when the inserts follow each other
\* within the read-cache interval.
C1_InsertAppendsOneRow ==
    [][\A s \in Sessions :
        Returns(s, "insert") =>
            LET old == wr[s].before
                new == store'[CHECKINS_SHEET]
            IN  /\ Len(DataRows(new)) = Len(DataRows(old)) + 1
                /\ \A i \in 1..Len(DataRows(old)) :
                     \A c \in {Header(old)[j] : j \in 1..Len(Header(old))} :
                        /\ InSeq(c, Header(new))
                        /\ StoredCell(new, i, c) = StoredCell(old, i, c)]_vars

\* C2: read-your-writes: when a handler that wrote a worksheet through
\* gs_write_df returns, the next gs_read_df of that worksheet returns the
\* written content, never a copy cached before the write.
C2_ReadYourWrites ==
    [][\A s \in Sessions : \A name \in DOMAIN store :
        (pc[s] = "written" /\ pc'[s] = "idle" /\ wr[s].sheet = name) =>
            gs_read_df(name)' = ParseValues(ValuesAfterUpdate(DataOf(wr[s].df)))]_vars

\* C3: insert never removes a column: every column of the check-ins table
\* when insert was called (a header-only table included) is a column of the
\* table when insert returns.
C3_InsertKeepsColumns ==
    [][\A s \in Sessions :
        Returns(s, "insert") =>
            \A j \in 1..Len(Header(wr[s].before)) :
                InSeq(Header(wr[s].before)[j], Header(store'[CHECKINS_SHEET]))]_vars

\* C4: insert of a record with a field the non-empty check-ins table lacks:
\* every prior row is still there, with its values unchanged in the columns
\* the table had and the missing marker (a blank cell) under each new column;
\* the new row is blank under every column the record lacks.
C4_InsertBackfills ==
    [][\A s \in Sessions :
        LET old == wr[s].before
            new == store'[CHECKINS_SHEET]
            row == wr[s].arg
        IN  ( /\ Returns(s, "insert")
              /\ Len(DataRows(old)) > 0
              /\ \E k \in 1..Len(row) : ~InSeq(row[k].k, Header(old)) )
            =>
            /\ Len(DataRows(new)) = Len(DataRows(old)) + 1
            /\ \A k \in 1..Len(row) : InSeq(row[k].k, Header(new))
            /\ \A i \in 1..Len(DataRows(old)) : \A j \in 1..Len(Header(new)) :
                 LET c == Header(new)[j]
                 IN  IF InSeq(c, Header(old))
                     THEN StoredCell(new, i, c) = StoredCell(old, i, c)
                     ELSE StoredCell(new, i, c) = <<>>
            /\ \A j \in 1..Len(Header(new)) :
                 ~InSeq(Header(new)[j], DictKeys(row)) =>
                    StoredCell(new, Len(DataRows(new)), Header(new)[j]) = <<>>]_vars

\* C5: gs_write_df is atomic for its caller: after every step of a write call,
\* the failing one included, the worksheet holds its complete old content or
\* the complete new content, never an empty or partial table.
C5_WriteIsAtomic ==
    [][\A s \in Sessions :
        (pc[s] \in {"clear", "update"} /\ wr[s].sheet \in DOMAIN store) =>
            store'[wr[s].sheet] \in {wr[s].before, ValuesAfterUpdate(DataOf(wr[s].df))}]_vars

\* C6: archive of a check-ins table with N > 0 data rows, when the store does
\* not fail, returns (name, N), where name is the source name plus a timestamp
\* suffix, did not exist before, and afterwards holds exactly those N rows.
C6_ArchiveCreatesTable ==
    [][\A s \in Sessions :
        ( /\ pc[s] # "idle" /\ wr[s].op = "archive" /\ pc'[s] = "idle"
          /\ ret'[s].status # "TransportError"
          /\ Len(DataRows(store[CHECKINS_SHEET])) > 0 )
        =>
        /\ ret'[s].status = "ok"
        /\ ret'[s].n = Len(DataRows(store[CHECKINS_SHEET]))
        /\ \E t \in 0..MaxTime : ret'[s].name = <<ArchiveName(CHECKINS_SHEET.base, t)>>
        /\ \A name \in DOMAIN store' :
             ret'[s].name = <<name>> =>
                /\ wr[s].before = <<>>
                /\ Len(DataRows(store'[name])) = Len(DataRows(store[CHECKINS_SHEET]))
        /\ \E name \in DOMAIN store' : ret'[s].name = <<name>>]_vars

\* C7: clear of a check-ins table with columns C and at least one data row
\* leaves exactly the header row C, in the same order, and no data row.
C7_ClearKeepsHeader ==
    [][\A s \in Sessions :
        (Returns(s, "clear") /\ Len(DataRows(wr[s].before)) > 0) =>
            store'[CHECKINS_SHEET] = <<Header(wr[s].before)>>]_vars

-----------------------------------------------------------------------------
\* Claims about the package catalogue (specification SpecNormalize).

\* The id cell of output row i is a non-empty id.
HasId(df, i) == CellOf(df, i, c_id).t = "s" /\ Strip(CellOf(df, i, c_id).v) # <<>>

\* C8: whatever the ids of the input table (typed, blank, read back from the
\* store as a missing cell, repeated), every row ensure_packages_df returns
\* has a non-empty id and no two rows share an id.
C8_IdsNonEmptyUnique ==
    norm.out.status = "ok" =>
        LET out == norm.out.df
        IN  /\ \A i \in 1..Len(out.rows) : HasId(out, i)
            /\ \A i, j \in 1..Len(out.rows) :
                 i # j => CellOf(out, i, c_id) # CellOf(out, j, c_id)

\* C9: ensure_packages_df never returns an empty catalogue: an empty input or
\* one without a name column gives the built-in default catalogue, and every
\* other input (rows with blank names included) gives at least one row.
C9_CatalogNeverEmpty ==
    norm.out.status = "ok" =>
        /\ Len(norm.out.df.rows) >= 1
        /\ (IsEmpty(norm.in) \/ ~HasCol(norm.in, c_name)) => norm.out.df = DEFAULT_PACKAGES

-----------------------------------------------------------------------------
\* Claims about the settings registry (specification SpecSettings).

\* Each key is in at most one data row of the settings worksheet.
KeysUnique ==
    LET rows == DataRows(store[SETTINGS_SHEET])
    IN  \A i, j \in 1..Len(rows) : i # j => rows[i][1] # rows[j][1]

\* C10: get(key, default) returns the value of the most recent set of that key
\* when that value is non-empty, and each key is in at most one row of the
\* settings table.
C10_GetReturnsLastSet ==
    /\ []KeysUnique
    /\ [][\A s \in Sessions : \A key \in SettingKeys : \A default \in SettingDefaults :
            ( /\ gs_get_setting(s, key, default)
              /\ lastSet[key].set
              /\ lastSet[key].value # <<>> )
            => ret'[s].str = lastSet[key].value]_vars

-----------------------------------------------------------------------------
\* The identity generator over the names the model types.

Firsts == {<<>>, <<"A", "l">>, <<"A", "l", " ">>, <<" ", "A", "l">>}
Lasts == {<<>>, <<"L", "o">>}
Teams == {<<>>, <<"U", "1", "0">>}
NameTriples == Firsts \X Lasts \X Teams

\* gen_player_id and short_code, evaluated once for every triple of names:
\* the pairs <<arguments, result>>.
PlayerIdTable == {<<n, gen_player_id(n[1], n[2], n[3])>> : n \in NameTriples}
ShortCodeTable == {<<p[2], short_code(p[2])>> : p \in PlayerIdTable}

PlayerIds(first, last, team) ==
    (CHOOSE p \in PlayerIdTable : p[1] = <<first, last, team>>)[2]
ShortCodes(pid) == (CHOOSE p \in ShortCodeTable : p[1] = pid)[2]

\* pid = gen_player_id(first, last, team), as a call of session s.
GenPlayerId(s, first, last, team) ==
    /\ page[s].at = "idle"
    /\ page' = [page EXCEPT ![s] =
                  [IdlePage EXCEPT !.form = [NoForm EXCEPT !.first = first, !.last = last, !.team = team],
                                   !.pid = PlayerIds(first, last, team)]]
    /\ UNCHANGED <<DEMO_MODE, store, cache, now, pc, wr, ret, lastSet, norm, secrets, files, pkgcache>>

\* scode = short_code(pid)
ShortCode(s) ==
    /\ page[s].at = "idle"
    /\ page[s].pid # <<>>
    /\ page[s].scode = <<>>
    /\ page' = [page EXCEPT ![s].scode = ShortCodes(page[s].pid)]
    /\ UNCHANGED <<DEMO_MODE, store, cache, now, pc, wr, ret, lastSet, norm, secrets, files, pkgcache>>

NextIdentity ==
    \/ \E s \in Sessions : \E n \in NameTriples : GenPlayerId(s, n[1], n[2], n[3])
    \/ \E s \in Sessions : ShortCode(s)

SpecIdentity == Init /\ [][NextIdentity]_vars

NamesOf(form) == <<form.first, form.last, form.team>>

IsHex(str) == \A i \in 1..Len(str) : InSeq(str[i], HexDigits)

\* C12: gen_player_id always returns 10 hexadecimal characters and the same
\* id for the same (first, last, team), empty strings included; short_code
\* returns 6 upper-case characters that depend on the id alone.
C12_IdentityCodes ==
    /\ \A s \in Sessions : page[s].pid # <<>> =>
          /\ Len(page[s].pid) = 10
          /\ IsHex(page[s].pid)
    /\ \A s, t \in Sessions :
          (page[s].pid # <<>> /\ page[t].pid # <<>> /\ NamesOf(page[s].form) = NamesOf(page[t].form))
              => page[s].pid = page[t].pid
    /\ \A s \in Sessions : page[s].scode # <<>> =>
          /\ Len(page[s].scode) = 6
          /\ Upper(page[s].scode) = page[s].scode
          /\ IsHex(Lower(page[s].scode))
    /\ \A s, t \in Sessions :
          (page[s].scode # <<>> /\ page[t].scode # <<>> /\ page[s].pid = page[t].pid)
              => page[s].scode = page[t].scode

\* Both sessions hold the id and the code of three empty names.
C12_Witness ==
    \A s \in Sessions :
        /\ NamesOf(page[s].form) = <<<<>>, <<>>, <<>>>>
        /\ page[s].pid # <<>>
        /\ page[s].scode # <<>>

-----------------------------------------------------------------------------
\* Kiosk page: the check-in form, the photo upload and the row it writes.

\* sub in s
Contains(sub, s) == \E i \in 0..(Len(s) - Len(sub)) : SubSeq(s, i + 1, i + Len(sub)) = sub

\* s.endswith(suffix)
EndsWith(s, suffix) ==
    Len(suffix) <= Len(s) /\ SubSeq(s, Len(s) - Len(suffix) + 1, Len(s)) = suffix

BRAND_NAME == <<"P", "h", "o", "t", "o", "g", "r", "a", "p", "h", " ", "B", "Y", " ", "T", "R", ",", " ", "L", "L", "C">>
BRAND_EMAILS ==
    <<"t", "r", "o", "s", "s", "i", "t", "e", "r", "@", "p", "h", "o", "t", "o", "g", "r", "a", "p", "h", "b", "y", "t", "r", ".", "c", "o", "m", ";", " ", "p", "h", "o", "t", "o", "g", "r", "a", "p", "h", "b", "y", "t", "r", "@", "g", "m", "a", "i", "l", ".", "c", "o", "m", ";", " ", "r", "o", "s", "s", "k", "i", "d", "0", "9", "1", "1", "@", "g", "m", "a", "i", "l", ".", "c", "o", "m">>
ORG_NAME == <<"O", "R", "G", "_", "N", "A", "M", "E">>

\* The columns get_google gives the Checkins worksheet.
CheckinColumns ==
    <<<<"t", "s">>,
      <<"p", "l", "a", "y", "e", "r", "_", "i", "d">>,
      <<"s", "h", "o", "r", "t", "_", "c", "o", "d", "e">>,
      <<"f", "i", "r", "s", "t", "_", "n", "a", "m", "e">>,
      <<"l", "a", "s", "t", "_", "n", "a", "m", "e">>,
      <<"t", "e", "a", "m">>,
      <<"p", "a", "r", "e", "n", "t", "_", "e", "m", "a", "i", "l">>,
      <<"p", "a", "r", "e", "n", "t", "_", "p", "h", "o", "n", "e">>,
      <<"c", "o", "n", "f", "i", "r", "m", "e", "d", "_", "e", "m", "a", "i", "l">>,
      <<"c", "o", "n", "f", "i", "r", "m", "e", "d", "_", "p", "h", "o", "n", "e">>,
      <<"j", "e", "r", "s", "e", "y">>,
      <<"c", "o", "n", "f", "i", "r", "m", "e", "d", "_", "j", "e", "r", "s", "e", "y">>,
      <<"p", "a", "c", "k", "a", "g", "e">>,
      <<"n", "o", "t", "e", "s">>,
      <<"r", "e", "l", "e", "a", "s", "e", "_", "a", "c", "c", "e", "p", "t", "e", "d">>,
      <<"p", "a", "i", "d">>,
      <<"o", "r", "g", "_", "n", "a", "m", "e">>,
      <<"b", "r", "a", "n", "d">>,
      <<"b", "r", "a", "n", "d", "_", "e", "m", "a", "i", "l", "s">>,
      <<"p", "h", "o", "t", "o", "_", "f", "i", "l", "e", "n", "a", "m", "e">>,
      <<"p", "h", "o", "t", "o", "_", "d", "r", "i", "v", "e", "_", "i", "d">>,
      <<"p", "h", "o", "t", "o", "_", "l", "i", "n", "k">>,
      <<"p", "a", "c", "k", "a", "g", "e", "_", "i", "d">>,
      <<"p", "a", "c", "k", "a", "g", "e", "_", "n", "a", "m", "e">>,
      <<"p", "a", "c", "k", "a", "g", "e", "_", "p", "r", "i", "c", "e">>>>

\* as_bool of page_kiosk
as_bool(cell) ==
    IF cell.t = "b" THEN cell = BoolCell(TRUE)
    ELSE Lower(Strip(cell.v)) \in {<<"t", "r", "u", "e">>, <<"1">>, <<"y", "e", "s">>, <<"y">>, <<"t">>}

\* gs_read_packages(): what the call returns or raises.
gs_read_packages ==
    IF pkgcache.set THEN Normalized("ok", pkgcache.df)
    ELSE ensure_packages_df(gs_read_df(PACKAGES_SHEET))

\* gs_read_packages(): its cache after the call; a call that raises stores nothing.
PkgCacheAfterRead ==
    IF ~pkgcache.set /\ gs_read_packages.status = "ok"
    THEN [set |-> TRUE, df |-> gs_read_packages.df]
    ELSE pkgcache

\* The worksheets the page reads through gs_read_df when it reads the settings
\* and the catalogue.
SheetsReadWithCatalogue ==
    {SETTINGS_SHEET} \cup (IF pkgcache.set THEN {} ELSE {PACKAGES_SHEET})

\* pkg_df of page_kiosk: an empty frame if gs_read_packages raised.
KioskPackages == IF gs_read_packages.status = "ok" THEN gs_read_packages.df ELSE EmptyDataFrame

\* active_pkgs
ActivePackages(pkg_df) ==
    IF IsEmpty(pkg_df) THEN EmptyDataFrame
    ELSE [pkg_df EXCEPT !.rows = SelectSeq(pkg_df.rows, LAMBDA r : as_bool(r[ColIndex(pkg_df, c_active)]))]

\* selected_pkg_id, selected_price, package_name_for_row: the package at
\* position choice of the select box, or the placeholders used without one.
SelectedPackage(active_pkgs, choice) ==
    IF ~IsEmpty(active_pkgs)
    THEN [id |-> CellOf(active_pkgs, choice, c_id),
          price |-> CoercePrice(CellOf(active_pkgs, choice, c_price)),
          name |-> CellOf(active_pkgs, choice, c_name).v]
    ELSE [id |-> StrCell(<<>>), price |-> FloatCell(<<"0", ".", "0">>), name |-> <<"N", "o", "t", " ", "s", "e", "l", "e", "c", "t", "e", "d">>]

\* (cam.type or "image/jpeg").lower()
MimeType(photo) == Lower(IF photo.type = <<>> THEN <<"i", "m", "a", "g", "e", "/", "j", "p", "e", "g">> ELSE photo.type)

\* ext
Ext(photo) ==
    IF photo.via = "cam"
    THEN (IF Contains(<<"j", "p", "e", "g">>, MimeType(photo)) THEN <<".", "j", "p", "g">> ELSE <<".", "p", "n", "g">>)
    ELSE IF EndsWith(Lower(photo.name), <<".", "j", "p", "g">>) \/ EndsWith(Lower(photo.name), <<".", "j", "p", "e", "g">>) THEN <<".", "j", "p", "g">>
    ELSE IF EndsWith(Lower(photo.name), <<".", "p", "n", "g">>) THEN <<".", "p", "n", "g">>
    ELSE <<".", "j", "p", "g">>

\* datetime.utcnow() as text (strftime, isoformat): the model's clock counts
\* seconds, its text is the count's numeral.
ClockText(t) == StrNat(t)

\* base_name
BaseName(org_name, form, scode, t) ==
    slugify(org_name) \o <<"_">> \o slugify(form.team) \o <<"_">> \o slugify(form.last) \o <<"_">>
        \o slugify(form.first) \o <<"_">> \o scode \o <<"_">> \o ClockText(t) \o Ext(form.photo)

\* new_row
new_row(form, pid, scode, org_name, sel, base_name, fid, link, t) ==
    <<[k |-> <<"t", "s">>, v |-> StrCell(ClockText(t))],
      [k |-> <<"p", "l", "a", "y", "e", "r", "_", "i", "d">>, v |-> StrCell(pid)],
      [k |-> <<"s", "h", "o", "r", "t", "_", "c", "o", "d", "e">>, v |-> StrCell(scode)],
      [k |-> <<"f", "i", "r", "s", "t", "_", "n", "a", "m", "e">>, v |-> StrCell(Strip(form.first))],
      [k |-> <<"l", "a", "s", "t", "_", "n", "a", "m", "e">>, v |-> StrCell(Strip(form.last))],
      [k |-> <<"t", "e", "a", "m">>, v |-> StrCell(Strip(form.team))],
      [k |-> <<"p", "a", "r", "e", "n", "t", "_", "e", "m", "a", "i", "l">>, v |-> StrCell(Strip(form.parent_email))],
      [k |-> <<"p", "a", "r", "e", "n", "t", "_", "p", "h", "o", "n", "e">>, v |-> StrCell(Strip(form.parent_phone))],
      [k |-> <<"c", "o", "n", "f", "i", "r", "m", "e", "d", "_", "e", "m", "a", "i", "l">>, v |-> StrCell(Strip(form.parent_email))],
      [k |-> <<"c", "o", "n", "f", "i", "r", "m", "e", "d", "_", "p", "h", "o", "n", "e">>, v |-> StrCell(Strip(form.parent_phone))],
      [k |-> <<"j", "e", "r", "s", "e", "y">>, v |-> StrCell(Strip(form.jersey))],
      [k |-> <<"c", "o", "n", "f", "i", "r", "m", "e", "d", "_", "j", "e", "r", "s", "e", "y">>, v |-> StrCell(Strip(form.jersey))],
      [k |-> <<"p", "a", "c", "k", "a", "g", "e">>, v |-> StrCell(sel.name)],
      [k |-> <<"n", "o", "t", "e", "s">>, v |-> StrCell(Strip(form.notes))],
      [k |-> <<"r", "e", "l", "e", "a", "s", "e", "_", "a", "c", "c", "e", "p", "t", "e", "d">>, v |-> BoolCell(form.release)],
      [k |-> <<"p", "a", "i", "d">>, v |-> StrCell(IF form.paid THEN <<"T", "R", "U", "E">> ELSE <<"F", "A", "L", "S", "E">>)],
      [k |-> <<"o", "r", "g", "_", "n", "a", "m", "e">>, v |-> StrCell(org_name)],
      [k |-> <<"b", "r", "a", "n", "d">>, v |-> StrCell(BRAND_NAME)],
      [k |-> <<"b", "r", "a", "n", "d", "_", "e", "m", "a", "i", "l", "s">>, v |-> StrCell(BRAND_EMAILS)],
      [k |-> <<"p", "h", "o", "t", "o", "_", "f", "i", "l", "e", "n", "a", "m", "e">>, v |-> StrCell(base_name)],
      [k |-> <<"p", "h", "o", "t", "o", "_", "d", "r", "i", "v", "e", "_", "i", "d">>, v |-> StrCell(fid)],
      [k |-> <<"p", "h", "o", "t", "o", "_", "l", "i", "n", "k">>, v |-> StrCell(link)],
      [k |-> <<"p", "a", "c", "k", "a", "g", "e", "_", "i", "d">>, v |-> sel.id],
      [k |-> <<"p", "a", "c", "k", "a", "g", "e", "_", "n", "a", "m", "e">>, v |-> StrCell(sel.name)],
      [k |-> <<"p", "a", "c", "k", "a", "g", "e", "_", "p", "r", "i", "c", "e">>, v |-> sel.price]>>

\* "first and last and team and parent_email and parent_phone and release"
Complete(form) ==
    /\ form.first # <<>> /\ form.last # <<>> /\ form.team # <<>>
    /\ form.parent_email # <<>> /\ form.parent_phone # <<>>
    /\ form.release

\* A validation that does not ask for a photo.
AnyPhoto(form) == TRUE

\* "cam or up"
HasPhoto(form) == form.photo.via # "none"

\* Complete Check-In is pressed with form filled in: the script runs from its
\* top, reads the settings and the catalogue, validates, and derives the id,
\* the code and the file name; drive_upload_photo is next.
KioskSubmit(s, form) ==
    /\ page[s].at = "idle"
    /\ pc[s] = "idle"
    /\ LET org_name == SettingValue(gs_read_df(SETTINGS_SHEET), ORG_NAME, <<>>)
           pid == PlayerIds(form.first, form.last, form.team)
           scode == ShortCodes(pid)
       IN  page' = [page EXCEPT ![s] =
                IF ~Complete(form) THEN Ended("incomplete")
                ELSE IF ~HasPhoto(form) THEN Ended("no_photo")
                ELSE [IdlePage EXCEPT !.at = "upload", !.form = form, !.pid = pid, !.scode = scode,
                                      !.pkg_df = KioskPackages,
                                      !.base_name = BaseName(org_name, form, scode, now),
                                      !.mimetype = MimeType(form.photo),
                                      !.org_name = org_name,
                                      !.sel = SelectedPackage(ActivePackages(KioskPackages), form.pkg)]]
    /\ cache' = CacheAfterReading(SheetsReadWithCatalogue)
    /\ pkgcache' = PkgCacheAfterRead
    /\ UNCHANGED <<DEMO_MODE, store, now, pc, wr, ret, lastSet, norm, secrets, files>>

\* The link a bucket gives an uploaded object (blob.public_url).
GcsUrl(bucket, name) == <<"h", "t", "t", "p", "s", ":", "/", "/", "s", "t", "o", "r", "a", "g", "e", ".", "g", "o", "o", "g", "l", "e", "a", "p", "i", "s", ".", "c", "o", "m", "/">> \o bucket \o <<"/">> \o name

\* The id Drive gives the n-th file created.
DriveFileId(n) == <<"f">> \o StrNat(n)

\* f"https://drive.google.com/file/d/{file_id}/view"
DriveLink(file_id) == <<"h", "t", "t", "p", "s", ":", "/", "/", "d", "r", "i", "v", "e", ".", "g", "o", "o", "g", "l", "e", ".", "c", "o", "m", "/", "f", "i", "l", "e", "/", "d", "/">> \o file_id \o <<"/", "v", "i", "e", "w">>

\* drive_upload_photo(filename, data, mimetype): [fid, link] returned and the
\* file storage after the call.  A configured bucket is used whatever
\* DEMO_MODE says; DEMO_MODE without a bucket returns a placeholder.
drive_upload_photo(filename, mimetype) ==
    IF secrets.GCS_BUCKET # <<>>
    THEN [fid |-> filename, link |-> GcsUrl(secrets.GCS_BUCKET, filename),
          files |-> Append(files, [to |-> "gcs", name |-> filename, mimetype |-> mimetype])]
    ELSE IF DEMO_MODE
    THEN [fid |-> <<"d", "e", "m", "o", "_">> \o filename, link |-> <<"h", "t", "t", "p", "s", ":", "/", "/", "e", "x", "a", "m", "p", "l", "e", ".", "c", "o", "m", "/">> \o filename,
          files |-> files]
    ELSE [fid |-> DriveFileId(Len(files) + 1), link |-> DriveLink(DriveFileId(Len(files) + 1)),
          files |-> Append(files, [to |-> "drive", name |-> filename, mimetype |-> mimetype])]

\* The upload returns and new_row is built; sb_insert_checkin(new_row) is next.
KioskUpload(s) ==
    /\ page[s].at = "upload"
    /\ Len(files) < MaxFiles
    /\ LET up == drive_upload_photo(page[s].base_name, page[s].mimetype)
       IN  /\ files' = up.files
           /\ page' = [page EXCEPT ![s].at = "insert", ![s].fid = up.fid, ![s].link = up.link,
                                   ![s].row = new_row(page[s].form, page[s].pid, page[s].scode,
                                                      page[s].org_name, page[s].sel,
                                                      page[s].base_name, up.fid, up.link, now)]
    /\ UNCHANGED <<DEMO_MODE, store, cache, now, pc, wr, ret, lastSet, norm, secrets, pkgcache>>

\* The upload raises (credentials, transport, or no way to make a link for
\* an object already stored in the bucket): the page reports it and ends.
KioskUploadFail(s, stored) ==
    /\ page[s].at = "upload"
    /\ secrets.GCS_BUCKET # <<>> \/ ~DEMO_MODE
    /\ stored => secrets.GCS_BUCKET # <<>> /\ Len(files) < MaxFiles
    /\ files' = IF stored
                THEN Append(files, [to |-> "gcs", name |-> page[s].base_name, mimetype |-> page[s].mimetype])
                ELSE files
    /\ page' = [page EXCEPT ![s] = Ended("upload_failed")]
    /\ UNCHANGED <<DEMO_MODE, store, cache, now, pc, wr, ret, lastSet, norm, secrets, pkgcache>>

\* sb_insert_checkin(new_row) is entered.
KioskInsert(s) ==
    /\ page[s].at = "insert"
    /\ sb_insert_checkin(s, page[s].row)
    /\ page' = [page EXCEPT ![s].at = "inserting"]

\* sb_insert_checkin has returned or raised: st.success, or the exception.
KioskDone(s) ==
    /\ page[s].at = "inserting"
    /\ pc[s] = "idle"
    /\ page' = [page EXCEPT ![s] = Ended(IF ret[s].status = "ok" THEN "success" ELSE "exception")]
    /\ UNCHANGED <<DEMO_MODE, store, cache, now, pc, wr, ret, lastSet, norm, secrets, files, pkgcache>>

\* The forms the model submits: complete ones whose first name differs in
\* its whitespace only, taken with the camera or uploaded, and forms that
\* fail validation.
FilledForm(first) ==
    [NoForm EXCEPT !.first = first, !.last = <<"L", "o">>, !.team = <<"U", "1", "0">>,
                   !.parent_email = <<"a", "@", "b", ".", "c">>, !.parent_phone = <<"5", "5", "5">>, !.release = TRUE,
                   !.photo = [via |-> "cam", type |-> <<"i", "m", "a", "g", "e", "/", "j", "p", "e", "g">>, name |-> <<>>]]

KioskForms ==
    {FilledForm(<<"A", "l">>), FilledForm(<<"A", "l", " ">>)}
    \cup {[FilledForm(<<"A", "l">>) EXCEPT !.photo = [via |-> "up", type |-> <<"i", "m", "a", "g", "e", "/", "p", "n", "g">>, name |-> <<"p", ".", "P", "N", "G">>]],
          [FilledForm(<<"A", "l">>) EXCEPT !.release = FALSE],
          [FilledForm(<<"A", "l">>) EXCEPT !.last = <<>>],
          [FilledForm(<<"A", "l">>) EXCEPT !.photo = NoPhoto]}

\* A deployment that writes: DEMO_MODE off, photos to Drive or to a bucket.
KioskStore ==
    [n \in {CHECKINS_SHEET, SETTINGS_SHEET, PACKAGES_SHEET} |->
        IF n = CHECKINS_SHEET THEN <<CheckinColumns>>
        ELSE IF n = SETTINGS_SHEET THEN <<<<c_key, c_value>>, <<ORG_NAME, <<"R", "e", "c">>>>>>
        ELSE <<<<c_id, c_name, c_price, c_active, c_note>>>>]

InitKiosk ==
    /\ DEMO_MODE = FALSE
    /\ secrets \in {NoSecrets, Secrets(<<>>, <<"b", "k", "t">>)}
    /\ store = KioskStore
    /\ cache = ClearedCache
    /\ now = 0
    /\ pc = [s \in Sessions |-> "idle"]
    /\ wr = [s \in Sessions |-> IdleFrame]
    /\ ret = [s \in Sessions |-> NoRet]
    /\ lastSet = [k \in SettingKeys |-> [set |-> FALSE, value |-> <<>>]]
    /\ norm = NotNormalized
    /\ files = <<>>
    /\ page = [s \in Sessions |-> IdlePage]
    /\ pkgcache = NoPackages

\* One script at a time: a session's run ends before the next one starts.
Quiet(s) == \A t \in Sessions \ {s} : pc[t] = "idle" /\ page[t].at = "idle"

\* The sessions that show the kiosk page.
Kiosks == {"s1"}

NextKiosk ==
    \/ \E s \in Kiosks : Quiet(s) /\ \E form \in KioskForms : KioskSubmit(s, form)
    \/ \E s \in Kiosks : Quiet(s) /\ KioskUpload(s)
    \/ \E s \in Kiosks : Quiet(s) /\ \E stored \in BOOLEAN : KioskUploadFail(s, stored)
    \/ \E s \in Kiosks : Quiet(s) /\ KioskInsert(s)
    \/ \E s \in Kiosks : Quiet(s) /\ WriteClear(s)
    \/ \E s \in Kiosks : Quiet(s) /\ WriteUpdate(s)
    \/ \E s \in Kiosks : Quiet(s) /\ AfterWrite(s)
    \/ \E s \in Kiosks : Quiet(s) /\ WriteFail(s)
    \/ \E s \in Kiosks : Quiet(s) /\ KioskDone(s)
    \/ \E d \in Delays : Tick(d)

SpecKiosk == InitKiosk /\ [][NextKiosk]_vars

-----------------------------------------------------------------------------
\* Claims about the kiosk page (specification SpecKiosk: one script at a time,
\* DEMO_MODE off).

\* The worksheet's last data row is row: its header has row's keys and the
\* row holds the text of each of row's cells.
RowStored(values, row) ==
    /\ DataRows(values) # <<>>
    /\ Header(values) = DictKeys(row)
    /\ values[Len(values)] = [i \in 1..Len(row) |-> IF NotNull(row[i].v) THEN row[i].v.v ELSE <<>>]

\* C11: a failing Sheets call during sb_insert_checkin leaves the handler as
\* an exception; insert returns normally, and the kiosk shows its success
\* message, only with the record's row written to the check-ins table.
C11_InsertFailurePropagates ==
    [][\A s \in Sessions :
          /\ (wr[s].op = "insert" /\ pc[s] \in {"clear", "update"} /\ pc'[s] = "idle")
                => ret'[s].op = "insert" /\ ret'[s].status # "ok"
          /\ Returns(s, "insert")
                => ret'[s].status = "ok" /\ RowStored(store'[CHECKINS_SHEET], wr[s].arg)
          /\ (page[s].at = "inserting" /\ page'[s].at = "idle" /\ ret[s].status # "ok")
                => page'[s].outcome = "exception"
          /\ (page[s].at = "inserting" /\ page'[s].outcome = "success")
                => /\ ret[s].op = "insert" /\ ret[s].status = "ok"
                   /\ RowStored(store[CHECKINS_SHEET], page[s].row)
      ]_vars

\* A Sheets call failed during the insert and the kiosk page ended with the
\* exception.
C11_Witness ==
    \E s \in Sessions :
        /\ page[s].outcome = "exception"
        /\ ret[s].op = "insert"
        /\ ret[s].status = "TransportError"

\* The file the upload of session s stored, and the id and link it returned.
UploadReturned(s, fs) ==
    /\ fs # <<>>
    /\ fs[Len(fs)].name = page[s].base_name
    /\ IF secrets.GCS_BUCKET # <<>>
       THEN /\ page[s].fid = page[s].base_name
            /\ page[s].link = GcsUrl(secrets.GCS_BUCKET, page[s].base_name)
       ELSE /\ page[s].fid = DriveFileId(Len(fs))
            /\ page[s].link = DriveLink(page[s].fid)

\* C17: the check-ins table changes only for a submission that passed
\* validation and whose upload has returned; a submission that fails
\* validation writes nothing and uploads nothing; a failed upload writes no
\* row; the row written carries the id and link the upload returned.
C17_RowOnlyAfterValidUpload ==
    [][/\ store' # store =>
            \E s \in Sessions :
                /\ page[s].at = "inserting"
                /\ wr[s].op = "insert" /\ wr[s].arg = page[s].row
                /\ page[s].form.first # <<>> /\ page[s].form.last # <<>> /\ page[s].form.team # <<>>
                /\ page[s].form.parent_email # <<>> /\ page[s].form.parent_phone # <<>>
                /\ page[s].form.release
                /\ page[s].form.photo.via \in {"cam", "up"}
                /\ \E n \in 1..Len(files) : UploadReturned(s, SubSeq(files, 1, n))
       /\ \A s \in Sessions :
            /\ page'[s].outcome \in {"incomplete", "no_photo"} /\ page'[s] # page[s]
                  => store' = store /\ files' = files
            /\ page[s].at = "upload" /\ page'[s].outcome = "upload_failed"
                  => store' = store
            /\ page[s].at = "upload" /\ page'[s].at = "insert"
                  => /\ files' # files
                     /\ UploadReturned(s, files)'
            /\ (pc[s] = "update" /\ pc'[s] = "written" /\ wr[s].op = "insert")
                  => /\ RowStored(store'[CHECKINS_SHEET], page[s].row)
                     /\ StoredCell(store'[CHECKINS_SHEET], Len(DataRows(store'[CHECKINS_SHEET])), <<"p", "h", "o", "t", "o", "_", "d", "r", "i", "v", "e", "_", "i", "d">>) = page[s].fid
                     /\ StoredCell(store'[CHECKINS_SHEET], Len(DataRows(store'[CHECKINS_SHEET])), <<"p", "h", "o", "t", "o", "_", "l", "i", "n", "k">>) = page[s].link
      ]_vars

\* A check-in went through: the page shows success, the table holds its row
\* and the storage its photo.
C17_Witness ==
    \E s \in Sessions :
        /\ page[s].outcome = "success"
        /\ DataRows(store[CHECKINS_SHEET]) # <<>>
        /\ files # <<>>

\* C19: two rows of the check-ins table with the same stored first_name,
\* last_name and team have the same player_id and the same short_code.
C19_SameNamesSameIds ==
    LET rows == DataRows(store[CHECKINS_SHEET])
        Cell(i, c) == StoredCell(store[CHECKINS_SHEET], i, c)
    IN  Header(store[CHECKINS_SHEET]) = CheckinColumns =>
            \A i, j \in 1..Len(rows) :
                (/\ Cell(i, <<"f", "i", "r", "s", "t", "_", "n", "a", "m", "e">>) = Cell(j, <<"f", "i", "r", "s", "t", "_", "n", "a", "m", "e">>)
                 /\ Cell(i, <<"l", "a", "s", "t", "_", "n", "a", "m", "e">>) = Cell(j, <<"l", "a", "s", "t", "_", "n", "a", "m", "e">>)
                 /\ Cell(i, <<"t", "e", "a", "m">>) = Cell(j, <<"t", "e", "a", "m">>))
                    => /\ Cell(i, <<"p", "l", "a", "y", "e", "r", "_", "i", "d">>) = Cell(j, <<"p", "l", "a", "y", "e", "r", "_", "i", "d">>)
                       /\ Cell(i, <<"s", "h", "o", "r", "t", "_", "c", "o", "d", "e">>) = Cell(j, <<"s", "h", "o", "r", "t", "_", "c", "o", "d", "e">>)

-----------------------------------------------------------------------------
\* Writing back what was read: gs_write_df(name, gs_read_df(name)).

ReadThenWrite(s, name) ==
    /\ pc[s] = "idle"
    /\ EnterWrite(s, "rewrite", name, gs_read_df(name), <<>>, 0)
    /\ cache' = CacheAfterRead(name)
    /\ UNCHANGED <<lastSet, norm, DEMO_MODE, secrets, files, pkgcache, now>>

NextRoundTrip ==
    \/ \E s \in Sessions : Alone(s) /\ UNCHANGED page /\ \E row \in CheckinRows : sb_insert_checkin(s, row)
    \/ \E s \in Sessions : Alone(s) /\ UNCHANGED page /\ ReadThenWrite(s, CHECKINS_SHEET)
    \/ \E s \in Sessions : Alone(s) /\ WriteClear(s)
    \/ \E s \in Sessions : Alone(s) /\ WriteUpdate(s)
    \/ \E s \in Sessions : Alone(s) /\ AfterWrite(s)
    \/ \E s \in Sessions : Alone(s) /\ WriteFail(s)
    \/ \E d \in Delays : Tick(d)

SpecRoundTrip == Init /\ [][NextRoundTrip]_vars

\* No cell of the worksheet, header included, is blank.
NoBlank(values) ==
    \A i \in 1..Len(values) : \A j \in 1..Len(values[i]) : values[i][j] # <<>>

\* C13: writing back what was just read leaves a worksheet without blank
\* cells exactly as it was, header and data rows in order.
C13_RoundTrip ==
    [][\A s \in Sessions :
          (Returns(s, "rewrite") /\ NoBlank(wr[s].before))
              => store'[wr[s].sheet] = wr[s].before
      ]_vars

-----------------------------------------------------------------------------
\* Two sessions inserting at once: the Sheets calls of their handlers
\* interleave freely (no lock, no transaction).

NextRace ==
    \/ \E s \in Sessions : UNCHANGED page /\ \E row \in CheckinRows : sb_insert_checkin(s, row)
    \/ \E s \in Sessions : WriteClear(s)
    \/ \E s \in Sessions : WriteUpdate(s)
    \/ \E s \in Sessions : AfterWrite(s)
    \/ \E s \in Sessions : WriteFail(s)
    \/ \E d \in Delays : Tick(d)

SpecRace == Init /\ [][NextRace]_vars

\* Sessions s and t are both inside an insert and read the same rows.
BothRead(s, t) ==
    /\ s # t
    /\ wr[s].op = "insert" /\ wr[t].op = "insert"
    /\ wr[s].before = wr[t].before
    /\ Len(wr[s].df.rows) = Len(wr[t].df.rows)

\* C14: when two inserts have both read before either wrote, and the second
\* write lands after the first, the table holds the second writer's rows
\* only: one row more than was read, not two; the first writer's row is
\* overwritten, and both inserts return without an error.
C14_LastWriterWins ==
    [][\A s, t \in Sessions :
          /\ (BothRead(s, t) /\ pc[t] = "written" /\ pc[s] = "update" /\ pc'[s] = "written")
                => /\ store'[CHECKINS_SHEET] = ValuesAfterUpdate(DataOf(wr[s].df))
                   /\ Len(DataRows(store'[CHECKINS_SHEET])) = Len(wr[t].df.rows)
                   /\ RowStored(store'[CHECKINS_SHEET], wr[s].arg)
                        \/ Header(store'[CHECKINS_SHEET]) # DictKeys(wr[s].arg)
          /\ (BothRead(s, t) /\ pc[t] = "written" /\ Returns(s, "insert"))
                => ret'[s].status = "ok"
          /\ (BothRead(s, t) /\ pc[s] = "written" /\ Returns(t, "insert"))
                => ret'[t].status = "ok"
      ]_vars

\* Both inserts have written onto a table read without data rows; the table
\* holds one data row, the later writer's, and the two rows differ.
C14_Witness ==
    \E s, t \in Sessions :
        /\ BothRead(s, t)
        /\ pc[s] = "written" /\ pc[t] = "written"
        /\ wr[s].arg # wr[t].arg
        /\ DataRows(wr[s].before) = <<>>
        /\ store[CHECKINS_SHEET] = ValuesAfterUpdate(DataOf(wr[s].df))
        /\ store[CHECKINS_SHEET] # ValuesAfterUpdate(DataOf(wr[t].df))
        /\ Len(DataRows(store[CHECKINS_SHEET])) = 1

-----------------------------------------------------------------------------
\* Manager page, Packages & Pricing: the catalogue editor and its Save button;
\* the kiosk page's package list.

\* gs_write_packages(df), up to its gs_write_df; AfterWrite clears the two
\* caches.  The reads of the calling script are the caller's.
gs_write_packages(s, df) ==
    /\ pc[s] = "idle"
    /\ IF ensure_packages_df(df).status = "ok"
       THEN EnterWrite(s, "save", PACKAGES_SHEET, ensure_packages_df(df).df, <<>>, 0)
       ELSE Return(s, Ret("save", ensure_packages_df(df).status, <<>>, 0, <<>>))
    /\ UNCHANGED <<lastSet, norm, DEMO_MODE, secrets, files, now>>

\* edited: the frame st.data_editor returns once the manager has set the
\* Show in kiosk box of row i to b (row 0: nothing was touched).
Edited(df, i, b) ==
    IF i = 0 THEN df
    ELSE [df EXCEPT !.rows[i][ColIndex(df, c_active)] = BoolCell(b)]

\* Save packages is pressed: the script runs from its top, reads the
\* settings and the catalogue, and calls gs_write_packages(edited) unless
\* the page's own DEMO_MODE test stops it.
PackagesSave(s, i, b) ==
    /\ page[s].at = "idle"
    /\ pc[s] = "idle"
    /\ cache' = CacheAfterReading(SheetsReadWithCatalogue)
    /\ pkgcache' = PkgCacheAfterRead
    /\ IF gs_read_packages.status # "ok"
       THEN /\ page' = [page EXCEPT ![s] = Ended("exception")]
            /\ UNCHANGED <<DEMO_MODE, store, now, pc, wr, ret, lastSet, norm, secrets, files>>
       ELSE /\ i <= Len(gs_read_packages.df.rows)
            /\ IF PageDemoCheck
               THEN /\ page' = [page EXCEPT ![s] = Ended("demo_warning")]
                    /\ UNCHANGED <<DEMO_MODE, store, now, pc, wr, ret, lastSet, norm, secrets, files>>
               ELSE /\ gs_write_packages(s, Edited(gs_read_packages.df, i, b))
                    /\ page' = [page EXCEPT ![s] =
                                  [IdlePage EXCEPT !.at = "saving",
                                                   !.pkg_df = gs_read_packages.df,
                                                   !.edited = Edited(gs_read_packages.df, i, b)]]

\* gs_write_packages has returned: st.success and st.rerun(), and the script
\* reads the catalogue again (with the settings and the check-ins count); or
\* it raised.
PackagesSaved(s) ==
    /\ page[s].at = "saving"
    /\ pc[s] = "idle"
    /\ IF ret[s].status # "ok"
       THEN /\ page' = [page EXCEPT ![s] = Ended("exception")]
            /\ UNCHANGED <<cache, pkgcache>>
       ELSE /\ cache' = CacheAfterReading(SheetsReadWithCatalogue \cup {CHECKINS_SHEET})
            /\ pkgcache' = PkgCacheAfterRead
            /\ page' = [page EXCEPT ![s] =
                          IF gs_read_packages.status = "ok"
                          THEN [Ended("saved") EXCEPT !.edited = page[s].edited,
                                                      !.pkg_df = gs_read_packages.df]
                          ELSE Ended("exception")]
    /\ UNCHANGED <<DEMO_MODE, store, now, pc, wr, ret, lastSet, norm, secrets, files>>

\* options of the kiosk's select box
KioskOptions == 
    [i \in 1..Len(ActivePackages(KioskPackages).rows) |-> CellOf(ActivePackages(KioskPackages), i, c_id).v]

\* The kiosk page is shown: its script reads the settings and the catalogue
\* and lists the active packages.
KioskView(s) ==
    /\ page[s].at = "idle"
    /\ pc[s] = "idle"
    /\ cache' = CacheAfterReading(SheetsReadWithCatalogue)
    /\ pkgcache' = PkgCacheAfterRead
    /\ page' = [page EXCEPT ![s] = [Ended("kiosk") EXCEPT !.options = KioskOptions]]
    /\ UNCHANGED <<DEMO_MODE, store, now, pc, wr, ret, lastSet, norm, secrets, files>>

\* The rows the manager may touch: none, or one of a catalogue's.
EditRows == 0..4

NextPackages ==
    \/ \E s \in Sessions : Quiet(s) /\ \E i \in EditRows, b \in BOOLEAN : PackagesSave(s, i, b)
    \/ \E s \in Sessions : Quiet(s) /\ WriteClear(s)
    \/ \E s \in Sessions : Quiet(s) /\ WriteUpdate(s)
    \/ \E s \in Sessions : Quiet(s) /\ AfterWrite(s)
    \/ \E s \in Sessions : Quiet(s) /\ WriteFail(s)
    \/ \E s \in Sessions : Quiet(s) /\ PackagesSaved(s)
    \/ \E s \in Sessions : Quiet(s) /\ KioskView(s)
    \/ \E d \in Delays : Tick(d)

SpecPackages == Init /\ [][NextPackages]_vars

\* C15: a package saved with active = False is in the catalogue the page
\* reads next (after the save) with active = False, and the kiosk does not
\* list a package whose stored active flag is False.
C15_SavePreservesActive ==
    [][\A s \in Sessions :
          /\ (page[s].at = "saving" /\ page'[s].outcome = "saved")
                => \A i \in 1..Len(page[s].edited.rows) :
                      CellOf(page[s].edited, i, c_active) = BoolCell(FALSE)
                          => \E j \in 1..Len(page'[s].pkg_df.rows) :
                                /\ CellOf(page'[s].pkg_df, j, c_name).v = CellOf(page[s].edited, i, c_name).v
                                /\ CellOf(page'[s].pkg_df, j, c_active) = BoolCell(FALSE)
          /\ (page'[s].outcome = "kiosk" /\ page'[s] # page[s] /\ ~pkgcache.set
                /\ ~CacheHit(PACKAGES_SHEET)
                /\ Header(store[PACKAGES_SHEET]) = <<c_id, c_name, c_price, c_active, c_note>>)
                => \A i \in 1..Len(DataRows(store[PACKAGES_SHEET])) :
                      StoredCell(store[PACKAGES_SHEET], i, c_active) = BoolCell(FALSE).v
                          => ~InSeq(StoredCell(store[PACKAGES_SHEET], i, c_id), page'[s].options)
      ]_vars

-----------------------------------------------------------------------------
\* A deployment with DEMO_MODE on, with and without a storage bucket configured.

\* The texts of the DEMO_MODE secret that turn the mode on.
DemoTexts == {<<" ", "T", "R", "U", "E", " ">>, <<"y", "e", "s">>}

InitDemo ==
    /\ secrets \in {Secrets(demo, bucket) : demo \in DemoTexts, bucket \in {<<>>, <<"b", "k", "t">>}}
    /\ DEMO_MODE = DemoModeOf(secrets.DEMO_MODE)
    /\ store = KioskStore
    /\ cache = ClearedCache
    /\ now = 0
    /\ pc = [s \in Sessions |-> "idle"]
    /\ wr = [s \in Sessions |-> IdleFrame]
    /\ ret = [s \in Sessions |-> NoRet]
    /\ lastSet = [k \in SettingKeys |-> [set |-> FALSE, value |-> <<>>]]
    /\ norm = NotNormalized
    /\ files = <<>>
    /\ page = [s \in Sessions |-> IdlePage]
    /\ pkgcache = NoPackages

\* Every operation that writes, one script at a time.  With DEMO_MODE on
\* gs_write_df returns before its first Sheets call, so ws.update and a
\* failing Sheets call are not steps of this deployment.
\* The forms submitted in the demonstration: a complete one, one without a photo.
DemoForms == {FilledForm(<<"A", "l">>), [FilledForm(<<"A", "l">>) EXCEPT !.photo = NoPhoto]}

\* The sessions that show the manager page.
Managers == {"s2"}

NextDemo ==
    \/ \E s \in Kiosks : Quiet(s) /\ \E form \in DemoForms : KioskSubmit(s, form)
    \/ \E s \in Kiosks : Quiet(s) /\ KioskUpload(s)
    \/ \E s \in Kiosks : Quiet(s) /\ \E stored \in BOOLEAN : KioskUploadFail(s, stored)
    \/ \E s \in Kiosks : Quiet(s) /\ KioskInsert(s)
    \/ \E s \in Kiosks : Quiet(s) /\ KioskDone(s)
    \/ \E s \in Managers : Quiet(s) /\ page[s].at = "idle" /\ UNCHANGED page
            /\ gs_set_setting(s, ORG_NAME, BRAND_NAME)
    \/ \E s \in Managers : Quiet(s) /\ page[s].at = "idle" /\ UNCHANGED page
            /\ \E note \in ArchiveNotes : gs_archive_checkins(s, note)
    \/ \E s \in Managers : Quiet(s) /\ page[s].at = "idle" /\ UNCHANGED page /\ gs_clear_checkins(s)
    \/ \E s \in Managers : Quiet(s) /\ \E i \in EditRows, b \in BOOLEAN : PackagesSave(s, i, b)
    \/ \E s \in Managers : Quiet(s) /\ PackagesSaved(s)
    \/ \E s \in Sessions : Quiet(s) /\ WriteClear(s)
    \/ \E s \in Sessions : Quiet(s) /\ AfterWrite(s)
    \/ \E d \in Delays : Tick(d)

SpecDemo == InitDemo /\ [][NextDemo]_vars

\* C16: with DEMO_MODE on, no step changes the spreadsheet or stores a file,
\* whatever the GCS_BUCKET secret is.
C16_DemoWritesNothing ==
    [][DEMO_MODE => store' = store /\ files' = files]_vars

-----------------------------------------------------------------------------
\* Manager page, Data management (Danger Zone): Archive & Clear / Clear now.

\* The button is pressed (it is enabled only with rows counted): the script
\* runs from its top, reads the settings, the catalogue and the check-ins
\* count, and goes on to archive or to clear unless the page's own
\* DEMO_MODE test stops it.
DangerClick(s, archive_first, note) ==
    /\ page[s].at = "idle"
    /\ pc[s] = "idle"
    /\ cache' = CacheAfterReading(SheetsReadWithCatalogue \cup {CHECKINS_SHEET})
    /\ pkgcache' = PkgCacheAfterRead
    /\ gs_read_packages.status = "ok"
    /\ RowCount(gs_read_df(CHECKINS_SHEET)) > 0
    /\ page' = [page EXCEPT ![s] =
                  IF PageDemoCheck THEN Ended("demo_warning")
                  ELSE [IdlePage EXCEPT !.at = IF archive_first THEN "archive" ELSE "clear",
                                        !.current_rows = RowCount(gs_read_df(CHECKINS_SHEET)),
                                        !.archive_first = archive_first,
                                        !.note = note]]
    /\ UNCHANGED <<DEMO_MODE, store, now, pc, wr, ret, lastSet, norm, secrets, files>>

\* archived, archived_rows = gs_archive_checkins(note=note)
DangerArchive(s) ==
    /\ page[s].at = "archive"
    /\ gs_archive_checkins(s, page[s].note)
    /\ page' = [page EXCEPT ![s].at = "archiving"]

\* gs_clear_checkins(): at once in Clear now, after gs_archive_checkins has
\* returned in Archive & Clear.
DangerClear(s) ==
    /\ \/ page[s].at = "clear"
       \/ page[s].at = "archiving" /\ pc[s] = "idle" /\ ret[s].status = "ok"
    /\ gs_clear_checkins(s)
    /\ page' = [page EXCEPT ![s].at = "clearing",
                            ![s].archived = IF page[s].at = "archiving" THEN ret[s].name ELSE <<>>]

\* gs_archive_checkins or gs_clear_checkins raised: the script ends with the
\* exception.
DangerRaised(s) ==
    /\ page[s].at \in {"archiving", "clearing"}
    /\ pc[s] = "idle"
    /\ ret[s].status # "ok"
    /\ page' = [page EXCEPT ![s] = Ended("exception")]
    /\ UNCHANGED <<DEMO_MODE, store, cache, now, pc, wr, ret, lastSet, norm, secrets, files, pkgcache>>

\* gs_clear_checkins has returned: st.success and st.rerun().
DangerDone(s) ==
    /\ page[s].at = "clearing"
    /\ pc[s] = "idle"
    /\ ret[s].status = "ok"
    /\ page' = [page EXCEPT ![s] = Ended("cleared")]
    /\ UNCHANGED <<DEMO_MODE, store, cache, now, pc, wr, ret, lastSet, norm, secrets, files, pkgcache>>

\* A manager in the Danger Zone while another session checks families in and
\* clears: one handler at a time, the scripts interleave between handlers.
NextDanger ==
    \/ \E s \in Managers : Alone(s)
            /\ \E archive_first \in BOOLEAN, note \in ArchiveNotes : DangerClick(s, archive_first, note)
    \/ \E s \in Managers : Alone(s) /\ DangerArchive(s)
    \/ \E s \in Managers : Alone(s) /\ DangerClear(s)
    \/ \E s \in Managers : Alone(s) /\ DangerRaised(s)
    \/ \E s \in Managers : Alone(s) /\ DangerDone(s)
    \/ \E s \in Sessions \ Managers : Alone(s) /\ UNCHANGED page
            /\ \E row \in CheckinRows : sb_insert_checkin(s, row)
    \/ \E s \in Sessions \ Managers : Alone(s) /\ UNCHANGED page /\ gs_clear_checkins(s)
    \/ \E s \in Sessions : Alone(s) /\ WriteClear(s)
    \/ \E s \in Sessions : Alone(s) /\ WriteUpdate(s)
    \/ \E s \in Sessions : Alone(s) /\ AfterWrite(s)
    \/ \E s \in Sessions : Alone(s) /\ WriteFail(s)
    \/ \E d \in Delays : Tick(d)

SpecDanger == Init /\ [][NextDanger]_vars

\* Data row r of the check-ins table is a row of the archive table named by
\* archived (the tab name gs_archive_checkins returned, if it wrote one).
Archived(r, archived) ==
    /\ archived # <<>>
    /\ archived[1] \in DOMAIN store
    /\ \E j \in 1..Len(DataRows(store[archived[1]])) :
          SubSeq(DataRows(store[archived[1]])[j], 1, Len(r)) = r

\* C18: in Archive & Clear, gs_clear_checkins is called only after
\* gs_archive_checkins has returned without error, and every data row its
\* ws.clear() removes from the check-ins table is in the archive tab that
\* flow wrote.
C18_ClearOnlyArchivedRows ==
    [][\A s \in Sessions :
          /\ (page[s].archive_first /\ page[s].at # "clearing" /\ page'[s].at = "clearing")
                => /\ page[s].at = "archiving"
                   /\ ret[s].op = "archive" /\ ret[s].status = "ok"
          /\ (page[s].archive_first /\ page[s].at = "clearing" /\ wr[s].op = "clear"
                /\ pc[s] = "clear" /\ pc'[s] = "update")
                => \A i \in 1..Len(DataRows(store[CHECKINS_SHEET])) :
                      Archived(DataRows(store[CHECKINS_SHEET])[i], page[s].archived)
      ]_vars

====
